---- MODULE Spec2Model ----
\* Verification model of the retrieval-gated answer engine (rag_backend.py),
\* the three dialogue flows (flows/*.py) and the session routing (app.py).
\*
\* Text is modelled as a sequence of atoms. An atom is one character or one
\* indivisible word/phrase; substring tests, lower-casing, stripping and
\* concatenation are computed on these sequences as the code computes them on
\* characters. None is the empty option <<>>, a present value v is <<v>>.
EXTENDS Integers, Sequences, FiniteSets, TLC

VARIABLES call, state, out, last, app, lc, pure

vars == <<call, state, out, last, app, lc, pure>>

\* ------------------------------------------------------------------ bounds
\* Longest node list the document index returns (besides LongNodes).
MaxNodes == 2

\* Number of flow starts in one session.
MaxStarts == 2

\* the number of user actions (texts submitted, buttons pressed) in a session
MaxTurns == 6

\* ------------------------------------------------------------- text helpers
None == <<>>

Some(v) == <<v>>

\* Python truthiness of an optional string: None and "" are falsy.
Truthy(o) == o # None /\ o[1] # <<>>

Min(a, b) == IF a < b THEN a ELSE b

\* str.lower() on one atom
LowerAtom(a) ==
    CASE a = "SCAM" -> "scam"
      [] a = "OTP" -> "otp"
      [] a = "PayLah" -> "paylah"
      [] a = "PayNow" -> "paynow"
      [] a = "I want to " -> "i want to "
      [] a = "I want to ask about financial " -> "i want to ask about financial "
      [] a = "I think I might be a victim of a " -> "i think i might be a victim of a "
      [] a = "Send money" -> "send money"
      [] a = "NOT_FOUND" -> "not_found"
      [] a = "DOES NOT CONTAIN" -> "does not contain"
      [] a = "Insufficient" -> "insufficient"
      [] a = "Skip" -> "skip"
      [] a = "YES" -> "yes"
      [] a = "Bank" -> "bank"
      [] a = "SMS" -> "sms"
      [] a = "Not" -> "not"
      [] a = "S" -> "s"
      [] a = "EP" -> "ep"
      [] OTHER -> a

\* str.lower()
Lower(s) == [i \in DOMAIN s |-> LowerAtom(s[i])]

IsSpace(a) == a \in {" ", "\n"}

RECURSIVE LStrip(_)
LStrip(s) == IF s # <<>> /\ IsSpace(Head(s)) THEN LStrip(Tail(s)) ELSE s

RECURSIVE RStrip(_)
RStrip(s) ==
    IF s # <<>> /\ IsSpace(s[Len(s)]) THEN RStrip(SubSeq(s, 1, Len(s) - 1)) ELSE s

\* str.strip()
Strip(s) == RStrip(LStrip(s))

\* pat in s
Contains(pat, s) ==
    \E i \in 1..(Len(s) - Len(pat) + 1) : SubSeq(s, i, i + Len(pat) - 1) = pat

\* s.startswith(p)
StartsWith(s, p) == Len(p) <= Len(s) /\ SubSeq(s, 1, Len(p)) = p

\* all sequences over S of length at most n
SeqsUpTo(S, n) == UNION {[1..k -> S] : k \in 0..n}

\* ----------------------------------------------------- rag_backend: config
TOP_K == 4

DEFAULT_MAX_CHARS == 48000

NOT_FOUND_TOKEN == <<"<", "<", "NOT_FOUND", ">", ">">>

REFUSAL_PATTERNS ==
    { <<"does not contain">>, <<"not contain information">>,
      <<"outside the scope">>, <<"not present in the context">>,
      <<"context focuses on">>, <<"cannot find">>, <<"insufficient">>,
      <<"<", "<", ">", ">">>, <<"<", ">">> }

FALLBACK_NOTICE ==
    << "\n", "(!) *Fallback Notice:*", "\n",
       "The uploaded context did not contain enough information to fully answer your question.",
       "\n", "Here's a **general overview** based on public knowledge instead:",
       "\n", "\n" >>

TRUNCATED == " ...[truncated]..."

SEPARATOR == "\n\n---\n\n"

\* -------------------------------------------- rag_backend: _sealion_chat
\* resp is the service's reply: [ok |-> FALSE] on a non-2xx status or a
\* timeout, otherwise the message content (None when there is none).
\* Variant: a failed request is swallowed and read as an empty reply.
SealionChatSwallowsFailure(resp) ==
    [raised |-> FALSE,
     text |-> Strip(IF ~resp.ok \/ resp.content = None THEN <<>> ELSE resp.content[1])]

SealionChat(resp) ==
    IF ~resp.ok
    THEN [raised |-> TRUE, text |-> <<>>]
    ELSE [raised |-> FALSE,
          text |-> Strip(IF resp.content = None THEN <<>> ELSE resp.content[1])]

\* ------------------------------------------- rag_backend: retrieve_context
\* md.file_name or md.source or md.document_id or "unknown"
SourceOf(md) ==
    IF ~md.isdict THEN "unknown"
    ELSE IF md.file_name # "" THEN md.file_name
    ELSE IF md.source # "" THEN md.source
    ELSE IF md.document_id # "" THEN md.document_id
    ELSE "unknown"

\* Variant: when the index raises, the query itself is handed back as context.
RetrieveContextEchoesQuery(query, top_k, index) ==
    IF index.raises
    THEN [ctx |-> <<query>>, srcs |-> <<"unknown">>]
    ELSE LET nodes == SubSeq(index.nodes, 1, Min(top_k, Len(index.nodes)))
             kept == SelectSeq(nodes, LAMBDA n : Strip(n.text) # <<>>)
         IN [ctx |-> [i \in DOMAIN kept |-> Strip(kept[i].text)],
             srcs |-> [i \in DOMAIN kept |-> SourceOf(kept[i].md)]]

RetrieveContext(query, top_k, index) ==
    IF index.raises
    THEN [ctx |-> <<>>, srcs |-> <<>>]
    ELSE LET nodes == SubSeq(index.nodes, 1, Min(top_k, Len(index.nodes)))
             kept == SelectSeq(nodes, LAMBDA n : Strip(n.text) # <<>>)
         IN [ctx |-> [i \in DOMAIN kept |-> Strip(kept[i].text)],
             srcs |-> [i \in DOMAIN kept |-> SourceOf(kept[i].md)]]

\* --------------------------------------------- rag_backend: clamp_context
\* Variant: a chunk that fills the budget exactly is treated as overflowing.
RECURSIVE ClampLoopOverflowsWhenFull(_, _, _, _)
ClampLoopOverflowsWhenFull(chunks, max_chars, outl, total) ==
    IF chunks = <<>> THEN outl
    ELSE LET c == Strip(Head(chunks))
         IN IF c = <<>> THEN ClampLoopOverflowsWhenFull(Tail(chunks), max_chars, outl, total)
            ELSE IF total + Len(c) >= max_chars
            THEN IF max_chars - total > 0
                 THEN Append(outl, SubSeq(c, 1, max_chars - total) \o <<TRUNCATED>>)
                 ELSE outl
            ELSE ClampLoopOverflowsWhenFull(Tail(chunks), max_chars, Append(outl, c),
                                            total + Len(c))

\* Variant: the loop goes on to the next chunk after an overflowing one.
RECURSIVE ClampLoopGoesOn(_, _, _, _)
ClampLoopGoesOn(chunks, max_chars, outl, total) ==
    IF chunks = <<>> THEN outl
    ELSE LET c == Strip(Head(chunks))
         IN IF c = <<>> THEN ClampLoopGoesOn(Tail(chunks), max_chars, outl, total)
            ELSE IF total + Len(c) > max_chars
            THEN IF max_chars - total > 0
                 THEN ClampLoopGoesOn(Tail(chunks), max_chars,
                          Append(outl, SubSeq(c, 1, max_chars - total) \o <<TRUNCATED>>),
                          total)
                 ELSE ClampLoopGoesOn(Tail(chunks), max_chars, outl, total)
            ELSE ClampLoopGoesOn(Tail(chunks), max_chars, Append(outl, c), total + Len(c))

\* The list `out` and the counter `total` of the loop, chunk by chunk.
RECURSIVE ClampLoop(_, _, _, _)
ClampLoop(chunks, max_chars, outl, total) ==
    IF chunks = <<>> THEN outl
    ELSE LET c == Strip(Head(chunks))
         IN IF c = <<>> THEN ClampLoop(Tail(chunks), max_chars, outl, total)
            ELSE IF total + Len(c) > max_chars
            THEN IF max_chars - total > 0
                 THEN Append(outl, SubSeq(c, 1, max_chars - total) \o <<TRUNCATED>>)
                 ELSE outl
            ELSE ClampLoop(Tail(chunks), max_chars, Append(outl, c), total + Len(c))

RECURSIVE Join(_, _)
Join(sep, parts) ==
    IF parts = <<>> THEN <<>>
    ELSE IF Len(parts) = 1 THEN parts[1]
    ELSE parts[1] \o <<sep>> \o Join(sep, Tail(parts))

ClampContext(chunks, max_chars) == Join(SEPARATOR, ClampLoop(chunks, max_chars, <<>>, 0))

\* --------------------------------------------- rag_backend: filter_context
ChunkHits(c, keys) == \E i \in DOMAIN keys : Contains(Lower(keys[i]), Lower(c))

FilterSel(chunks, include_any) ==
    SelectSeq(chunks, LAMBDA c : ChunkHits(c, include_any))

\* Variant: the selection is returned even when it is empty.
FilterContextReturnsSel(chunks, include_any) ==
    IF include_any = <<>> THEN chunks ELSE FilterSel(chunks, include_any)

\* the returned list
FilterContext(chunks, include_any) ==
    IF include_any = <<>> THEN chunks
    ELSE IF FilterSel(chunks, include_any) # <<>> THEN FilterSel(chunks, include_any)
    ELSE chunks

\* whether the returned list is the argument object itself (`sel or chunks`)
FilterContextIsInput(chunks, include_any) ==
    include_any = <<>> \/ FilterSel(chunks, include_any) = <<>>

\* ------------------------------------------------ rag_backend: answer_query
\* Variant: the gate trusts filter_context and never empties the list itself.
GateChunksTrustsFilter(ctx_chunks, require_keywords, force_general) ==
    IF force_general THEN <<>>
    ELSE IF require_keywords # <<>>
    THEN FilterContext(ctx_chunks, [i \in DOMAIN require_keywords |-> Lower(require_keywords[i])])
    ELSE ctx_chunks

\* Variant: the keyword test comes first and force_general is read only
\* when no keywords are given.
GateChunksKeywordsFirst(ctx_chunks, require_keywords, force_general) ==
    IF require_keywords # <<>>
    THEN LET keys == [i \in DOMAIN require_keywords |-> Lower(require_keywords[i])]
         IN IF FilterContextIsInput(ctx_chunks, keys)
            THEN IF ~(\E i \in DOMAIN ctx_chunks : ChunkHits(ctx_chunks[i], require_keywords))
                 THEN <<>>
                 ELSE ctx_chunks
            ELSE FilterContext(ctx_chunks, keys)
    ELSE IF force_general THEN <<>>
    ELSE ctx_chunks

\* Step 2 of answer_query: the keyword / force_general gate.
GateChunks(ctx_chunks, require_keywords, force_general) ==
    IF force_general THEN <<>>
    ELSE IF require_keywords # <<>>
    THEN LET keys == [i \in DOMAIN require_keywords |-> Lower(require_keywords[i])]
         IN IF FilterContextIsInput(ctx_chunks, keys)
            THEN IF ~(\E i \in DOMAIN ctx_chunks : ChunkHits(ctx_chunks[i], require_keywords))
                 THEN <<>>
                 ELSE ctx_chunks
            ELSE FilterContext(ctx_chunks, keys)
    ELSE ctx_chunks

\* Step 3 of answer_query: the focus terms read off the raw query.
FocusTerms(user_raw) ==
    LET ur_low == Lower(user_raw)
        spass == Contains(<<"s", " ", "pass">>, ur_low)
                 \/ Contains(<<"spass">>, ur_low)
                 \/ Contains(<<" ", "s-pass">>, ur_low)
        epass == Contains(<<"employment", " ", "pass">>, ur_low)
                 \/ Contains(<<" ", "ep", " ">>, <<" ">> \o ur_low \o <<" ">>)
    IN IF spass \/ epass
       THEN << <<"s", " ", "pass">>, <<"employment", " ", "pass">>, <<"ep">> >>
       ELSE <<>>

\* Variant: only the chunks that mention a focus term are kept, none when
\* no chunk mentions one.
FocusChunksOnlyMentioning(ctx_chunks, user_raw, require_keywords, force_general) ==
    IF ~force_general /\ require_keywords = <<>> /\ FocusTerms(user_raw) # <<>>
    THEN FilterSel(ctx_chunks, FocusTerms(user_raw))
    ELSE ctx_chunks

FocusChunks(ctx_chunks, user_raw, require_keywords, force_general) ==
    IF ~force_general /\ require_keywords = <<>> /\ FocusTerms(user_raw) # <<>>
    THEN FilterContext(ctx_chunks, FocusTerms(user_raw))
    ELSE ctx_chunks

\* Variant: the refusal phrases are matched without lower-casing the output.
LooksLikeRefusalCaseSensitive(text) == \E pat \in REFUSAL_PATTERNS : Contains(pat, text)

\* any(pat in text.lower() for pat in refusal_patterns)
LooksLikeRefusal(text) == \E pat \in REFUSAL_PATTERNS : Contains(pat, Lower(text))

\* Variant: the sentinel is searched for inside the output instead of compared.
GroundedAcceptSentinelInside(rag_ans) ==
    /\ rag_ans # <<>>
    /\ ~Contains(NOT_FOUND_TOKEN, Strip(rag_ans))
    /\ ~LooksLikeRefusal(Strip(rag_ans))

\* whether the strict pass output is returned as the grounded answer
GroundedAccept(rag_ans) ==
    /\ rag_ans # <<>>
    /\ Strip(rag_ans) # NOT_FOUND_TOKEN
    /\ ~LooksLikeRefusal(Strip(rag_ans))

\* the notice prepended to the general reply
FallbackNotice(ctx_chunks) == IF ctx_chunks # <<>> THEN FALLBACK_NOTICE ELSE <<>>

\* the entry of answer_query itself, with the gate arguments it was given
AnswerCall(require_keywords, force_general) ==
    [op |-> "answer_query", temperature |-> 0, prompt |-> "-", context |-> <<>>,
     require_keywords |-> require_keywords, force_general |-> force_general]

RetrieveCall == [op |-> "retrieve", temperature |-> 0, prompt |-> "-", context |-> <<>>]

\* Variant: every completion is requested at temperature 0.
ChatCallAlwaysZero(temp, prompt, context) ==
    [op |-> "chat", temperature |-> 0, prompt |-> prompt, context |-> context]

ChatCall(temp, prompt, context) ==
    [op |-> "chat", temperature |-> temp, prompt |-> prompt, context |-> context]

Raised(calls, kept) ==
    [raised |-> TRUE, answer |-> <<>>, used_rag |-> FALSE, sources |-> <<>>,
     fallback_used |-> FALSE, calls |-> calls, kept |-> kept]

\* Variant: the sources of the passages that survived the gate only.
ResultSourcesOfKept(srcs, ctx_chunks) == SubSeq(srcs, 1, Len(ctx_chunks))

\* Variant: no sources are reported when the gate left no passage.
ResultSourcesNoneWhenGated(srcs, ctx_chunks) == IF ctx_chunks = <<>> THEN <<>> ELSE srcs

\* The `sources` entry of the returned dict.
ResultSources(srcs, ctx_chunks) == srcs

\* Variant: a fallback result reports used_rag whenever passages had survived
\* the gate.
AnswerQueryGroundedWhenContextKept(user_raw, require_keywords, force_general, env) ==
    LET r == RetrieveContext(user_raw, TOP_K, env.index)
        gated == GateChunks(r.ctx, require_keywords, force_general)
        ctx_chunks == FocusChunks(gated, user_raw, require_keywords, force_general)
        context == ClampContext(ctx_chunks, DEFAULT_MAX_CHARS)
        rag == SealionChat(env.rag)
        gen == SealionChat(env.gen)
        c1 == <<AnswerCall(require_keywords, force_general), RetrieveCall>>
        c2 == IF ctx_chunks # <<>> THEN Append(c1, ChatCall(0, "strict", context)) ELSE c1
        c3 == Append(c2, ChatCall(2, "general", <<>>))
    IN IF ctx_chunks # <<>> /\ rag.raised THEN Raised(c2, ctx_chunks)
       ELSE IF ctx_chunks # <<>> /\ GroundedAccept(rag.text)
       THEN [raised |-> FALSE, answer |-> Strip(rag.text), used_rag |-> TRUE,
             sources |-> ResultSources(r.srcs, ctx_chunks), fallback_used |-> FALSE,
             calls |-> c2, kept |-> ctx_chunks]
       ELSE IF gen.raised THEN Raised(c3, ctx_chunks)
       ELSE [raised |-> FALSE, answer |-> FallbackNotice(ctx_chunks) \o gen.text,
             used_rag |-> ctx_chunks # <<>>, sources |-> ResultSources(r.srcs, ctx_chunks),
             fallback_used |-> TRUE, calls |-> c3, kept |-> ctx_chunks]

\* env: the replies of the outside world to this one call
\*   env.index : the document index's reply (it raises, or a list of nodes)
\*   env.rag   : the generation service's reply to the strict pass
\*   env.gen   : the generation service's reply to the general pass
\* The result is the returned dict, or raised = TRUE when the call raises;
\* calls lists the call itself and the outside calls it made, in order
\* (temperature in tenths: 0 = 0.0, 2 = 0.2) and kept is ctx_chunks as it stands after steps 2 and 3.
AnswerQuery(user_raw, require_keywords, force_general, env) ==
    LET r == RetrieveContext(user_raw, TOP_K, env.index)
        gated == GateChunks(r.ctx, require_keywords, force_general)
        ctx_chunks == FocusChunks(gated, user_raw, require_keywords, force_general)
        context == ClampContext(ctx_chunks, DEFAULT_MAX_CHARS)
        rag == SealionChat(env.rag)
        gen == SealionChat(env.gen)
        c1 == <<AnswerCall(require_keywords, force_general), RetrieveCall>>
        c2 == IF ctx_chunks # <<>> THEN Append(c1, ChatCall(0, "strict", context)) ELSE c1
        c3 == Append(c2, ChatCall(2, "general", <<>>))
    IN IF ctx_chunks # <<>> /\ rag.raised THEN Raised(c2, ctx_chunks)
       ELSE IF ctx_chunks # <<>> /\ GroundedAccept(rag.text)
       THEN [raised |-> FALSE, answer |-> Strip(rag.text), used_rag |-> TRUE,
             sources |-> ResultSources(r.srcs, ctx_chunks), fallback_used |-> FALSE,
             calls |-> c2, kept |-> ctx_chunks]
       ELSE IF gen.raised THEN Raised(c3, ctx_chunks)
       ELSE [raised |-> FALSE, answer |-> FallbackNotice(ctx_chunks) \o gen.text,
             used_rag |-> FALSE, sources |-> ResultSources(r.srcs, ctx_chunks),
             fallback_used |-> TRUE, calls |-> c3, kept |-> ctx_chunks]

\* ------------------------------------------------- the outside world's replies
Md(file_name, source, document_id) ==
    [isdict |-> TRUE, file_name |-> file_name, source |-> source,
     document_id |-> document_id]

NoMd == [isdict |-> FALSE, file_name |-> "", source |-> "", document_id |-> ""]

NodeScam == [text |-> <<"report", " ", "SCAM", "\n">>, md |-> Md("scam.pdf", "web", "d1")]

NodeWeather == [text |-> <<"weather">>, md |-> NoMd]

NodeBlank == [text |-> <<" ", "\n">>, md |-> Md("blank.txt", "", "")]

NodePaylah == [text |-> <<"PayLah", " ", "guide">>, md |-> Md("", "web", "d7")]

NodePass == [text |-> <<"s", " ", "pass", " ", "rules">>, md |-> Md("", "", "d9")]

NodePool == {NodeScam, NodeWeather, NodeBlank, NodePaylah, NodePass}

\* a reply longer than TOP_K
LongNodes == <<NodeWeather, NodeWeather, NodePass, NodeWeather, NodeScam>>

IndexRaises == [raises |-> TRUE, nodes |-> <<>>]

IndexReplies ==
    {IndexRaises}
    \cup {[raises |-> FALSE, nodes |-> ns] : ns \in SeqsUpTo(NodePool, MaxNodes) \cup {LongNodes}}

ChatFails == [ok |-> FALSE, content |-> None]

ChatSays(text) == [ok |-> TRUE, content |-> Some(text)]

ChatNoContent == [ok |-> TRUE, content |-> None]

RagReplies ==
    { ChatFails, ChatNoContent,
      ChatSays(<<" ", "\n">>),
      ChatSays(NOT_FOUND_TOKEN),
      ChatSays(<<"\n">> \o NOT_FOUND_TOKEN \o <<" ">>),
      ChatSays(NOT_FOUND_TOKEN \o <<".">>),
      ChatSays(<<"<", "<", "not_found", ">", ">">>),
      ChatSays(<<"The context ", "DOES NOT CONTAIN", " fees">>),
      ChatSays(<<"Insufficient">>),
      ChatSays(<<"see", " ", "<", ">">>),
      ChatSays(<<"Summary.", " ", "\"report SCAM\"", " ", "[scam.pdf]">>) }

GenReplies ==
    { ChatFails, ChatNoContent, ChatSays(<<" ", "General", " ", "advice.", "\n">>) }

Queries ==
    { <<"random", " ", "question">>, <<"renew", " ", "my", " ", "S", " ", "pass">> }

\* require_keywords as callers pass them (scam_flow.py passes lower-case
\* keys; answer_query lower-cases whatever it is given)
KeywordTuples ==
    { <<>>, << <<"scam">>, <<"otp">> >>, << <<"PayLah">> >> }

Envs == [index : IndexReplies, rag : RagReplies, gen : GenReplies]

\* ---------------------------------------------------- flows: shared pieces
NoFlow == "None"

NoLabel == "None"

DONE == "done"

\* user.lower() in ("yes", "y", "yeah", "ok", "okay", "sure")
SaysYes(user) ==
    Lower(user) \in { <<"yes">>, <<"y">>, <<"yeah">>, <<"ok">>, <<"okay">>, <<"sure">> }

\* str.title() on one atom
TitleAtom(a) ==
    CASE a = "vietnam" -> "Vietnam"
      [] a = "YES" -> "Yes"
      [] a = "budget" -> "Budget"
      [] a = "no" -> "No"
      [] OTHER -> a

\* str.title()
Title(s) == [i \in DOMAIN s |-> TitleAtom(s[i])]

\* str.replace(",", "") on one atom
DropCommasAtom(a) == IF a = "1,200" THEN "1200" ELSE a

\* re.findall(r"\d+(?:\.\d+)?", user.replace(",", "")): the numeric tokens, in order
NumberAtoms == {"1200", "200", "900", "6"}

FindNumbers(user) ==
    SelectSeq([i \in DOMAIN user |-> DropCommasAtom(user[i])], LAMBDA a : a \in NumberAtoms)

\* Variant: the last numeric token is stored.
ParseOptionalNumberLast(user) ==
    IF user # <<>> /\ Lower(user) # <<"skip">> /\ FindNumbers(user) # <<>>
    THEN Some(<<FindNumbers(user)[Len(FindNumbers(user))]>>)
    ELSE None

\* the value the optional numeric states store, or None when they store nothing
ParseOptionalNumber(user) ==
    IF user # <<>> /\ Lower(user) # <<"skip">> /\ FindNumbers(user) # <<>>
    THEN Some(<<FindNumbers(user)[1]>>)
    ELSE None

\* for key, val in TABLE.items(): if key in low: return val   (None when no key is found)
RECURSIVE FirstMatch(_, _)
FirstMatch(table, low) ==
    IF table = <<>> THEN None
    ELSE IF Contains(table[1][1], low) THEN Some(table[1][2])
    ELSE FirstMatch(Tail(table), low)

\* list(dict.fromkeys(xs)): duplicates dropped, first occurrences kept in order
RECURSIVE Dedupe(_)
Dedupe(xs) ==
    IF xs = <<>> THEN <<>>
    ELSE LET r == Dedupe(SubSeq(xs, 1, Len(xs) - 1))
             x == xs[Len(xs)]
         IN IF \E i \in DOMAIN r : r[i] = x THEN r ELSE Append(r, x)

\* what a flow function hands back: the returned dict, or raised = TRUE when
\* answer_query raised inside it; calls lists the outside calls it made.
Reply(text, used_backend, used_rag, sources, done, calls) ==
    [raised |-> FALSE, text |-> text, used_backend |-> used_backend,
     used_rag |-> used_rag, sources |-> sources, done |-> done, calls |-> calls]

Plain(text, done) == Reply(text, FALSE, FALSE, <<>>, done, <<>>)

Failure(calls) ==
    [raised |-> TRUE, text |-> <<>>, used_backend |-> FALSE, used_rag |-> FALSE,
     sources |-> <<>>, done |-> FALSE, calls |-> calls]

\* a flow function's effect: the session state as it leaves it, and its outcome
Effect(st, o) == [state |-> st, out |-> o]

\* res.get('answer', '') of a returned dict
AnswerOf(res) == res.answer

\* ------------------------------------------------- flows/remittance_flow.py
ASK_COUNTRY == "ask_country"

ASK_METHOD == "ask_method"

ASK_AMOUNT == "ask_amount_optional"

SHOW_OPTIONS == "show_options"

OFFER_BUDGET == "offer_budget"

METHOD_MAP ==
    << << <<"bank">>, <<"bank", " ", "transfer">> >>,
       << <<"bank", " ", "transfer">>, <<"bank", " ", "transfer">> >>,
       << <<"cash">>, <<"cash", " ", "pickup">> >>,
       << <<"pickup">>, <<"cash", " ", "pickup">> >>,
       << <<"cash", " ", "pickup">>, <<"cash", " ", "pickup">> >>,
       << <<"wallet">>, <<"mobile", " ", "wallet">> >>,
       << <<"mobile">>, <<"mobile", " ", "wallet">> >>,
       << <<"mobile", " ", "wallet">>, <<"mobile", " ", "wallet">> >>,
       << <<"paylah">>, <<"PayLah">> >>,
       << <<"paynow">>, <<"PayNow">> >> >>

REMIT_DOC_KEYS ==
    << <<"eremittance guide to sending money home safely">>,
       <<"your guide to paylah">>,
       <<"transfer funds using dbs paylah">>,
       <<"financial institution directory">>,
       <<"documents required for account opening">>,
       <<"posb payroll account for work permit holders in singapore">>,
       <<"mw handy guide english">>,
       <<"documents required for work pass">>,
       <<"paylah">>, <<"paynow">>, <<"dbs", " ", "paylah">>, <<"dbs", " ", "paynow">>,
       <<"kyc">>, <<"required", " ", "documents">>, <<"account", " ", "opening">>,
       <<"work", " ", "permit">>, <<"s", " ", "pass">>, <<"employment", " ", "pass">>,
       <<"fees">>, <<"charges">>, <<"exchange", " ", "rate">>, <<"fx">>, <<"limits">>,
       <<"cash", " ", "pickup">>, <<"bank", " ", "transfer">>, <<"mobile", " ", "wallet">> >>

RemitStartPrompt ==
    <<"Let's sort out **remittance**", "\n", "Which **country** do you usually send money to?">>

\* Variant: the re-ask repeats the opening prompt.
RemitCountryReaskRepeatsStart == RemitStartPrompt

RemitCountryReask == <<"Which **country** do you usually send money to?">>

RemitMethodPrompt(country) ==
    <<"Got it - **">> \o country
    \o <<"**. Do you prefer **bank transfer**, **cash pickup**, **mobile wallet**, **PayLah**, or **PayNow**?">>

RemitMethodReask ==
    <<"Please choose one: **bank transfer**, **cash pickup**, **mobile wallet**, **PayLah**, or **PayNow**.">>

RemitAmountPrompt(method) ==
    <<"Okay - **">> \o method
    \o <<"**. (Optional) About how much do you usually send **per month**? You can reply with an amount like 200 or say **skip**.">>

RemitOptionsText(ctry, meth, answer) ==
    <<"Here's what to expect when sending money to **">> \o ctry \o <<"** via **">> \o meth
    \o <<"**:", "\n", "\n">> \o answer
    \o <<"\n", "\n", "Would you also like **simple budgeting tips** to help plan your remittances each month? (yes/no)">>

RemitBudgetText(answer) ==
    <<"Great - here are some budgeting tips:", "\n", "\n">> \o answer
    \o <<"\n", "\n", "You can ask another question anytime.">>

RemitNoBudgetText == <<"No worries. You can ask another question anytime.">>

RemitEndText == <<"Okay, ending this remittance flow. Ask me anything else.">>

ResetRemittanceState(st) ==
    Effect([st EXCEPT !.flow = "remittance", !.flow_state = ASK_COUNTRY,
                      !.country = None, !.method = None, !.amount = None],
           Plain(RemitStartPrompt, FALSE))

\* Variant: the reply must equal a key of the table.
NormalizeMethodExact(text) ==
    IF \E i \in DOMAIN METHOD_MAP : METHOD_MAP[i][1] = Strip(Lower(text))
    THEN FirstMatch(METHOD_MAP, Strip(Lower(text)))
    ELSE None

\* Variant: the last matching key of the table wins.
RECURSIVE LastMatch(_, _)
LastMatch(table, low) ==
    IF table = <<>> THEN None
    ELSE IF Contains(table[Len(table)][1], low) THEN Some(table[Len(table)][2])
    ELSE LastMatch(SubSeq(table, 1, Len(table) - 1), low)

NormalizeMethodLastKey(text) == LastMatch(METHOD_MAP, Strip(Lower(text)))

NormalizeMethod(text) == FirstMatch(METHOD_MAP, Strip(Lower(text)))

RemitOptionsQuery(st) ==
    <<"Remittance guidance from Singapore to ">>
    \o (IF Truthy(st.country) THEN st.country[1] ELSE <<"the destination country">>)
    \o <<" via ">>
    \o (IF Truthy(st.method) THEN st.method[1] ELSE <<"a suitable method">>)
    \o (IF Truthy(st.amount) THEN <<" for about SGD ">> \o st.amount[1] \o <<" per month">> ELSE <<>>)
    \o <<". Cover: step-by-step sending process, ...">>

RemitBudgetQuery(st) ==
    <<"Budgeting tips for migrant workers in Singapore who remit monthly to ">>
    \o (IF Truthy(st.country) THEN st.country[1] ELSE <<"home country">>)
    \o <<". Be practical and simple: ...">>

\* Variant: the options call is issued a second time before the reply is built.
RemitOptionsOutcomeCallsTwice(st, res) ==
    IF res.raised THEN Effect(st, Failure(res.calls \o res.calls))
    ELSE Effect([st EXCEPT !.flow_state = OFFER_BUDGET],
                Reply(RemitOptionsText(
                          IF Truthy(st.country) THEN st.country[1]
                          ELSE <<"the destination country">>,
                          IF Truthy(st.method) THEN st.method[1] ELSE <<"a suitable method">>,
                          AnswerOf(res)),
                      TRUE, res.used_rag, res.sources, FALSE, res.calls \o res.calls))

\* Variant: a failed options call leaves the flow asking for the amount again.
RemitOptionsOutcomeAsksAmountAgain(st, res) ==
    IF res.raised THEN Effect([st EXCEPT !.flow_state = ASK_AMOUNT], Failure(res.calls))
    ELSE Effect([st EXCEPT !.flow_state = OFFER_BUDGET],
                Reply(RemitOptionsText(
                          IF Truthy(st.country) THEN st.country[1]
                          ELSE <<"the destination country">>,
                          IF Truthy(st.method) THEN st.method[1] ELSE <<"a suitable method">>,
                          AnswerOf(res)),
                      TRUE, res.used_rag, res.sources, FALSE, res.calls))

\* the SHOW_OPTIONS block from the return of answer_query on (res is what it
\* returned, or that it raised)
RemitOptionsOutcome(st, res) ==
    IF res.raised THEN Effect(st, Failure(res.calls))
    ELSE Effect([st EXCEPT !.flow_state = OFFER_BUDGET],
                Reply(RemitOptionsText(
                          IF Truthy(st.country) THEN st.country[1]
                          ELSE <<"the destination country">>,
                          IF Truthy(st.method) THEN st.method[1] ELSE <<"a suitable method">>,
                          AnswerOf(res)),
                      TRUE, res.used_rag, res.sources, FALSE, res.calls))

\* Variant: the yes branch reports done and leaves the flow marker set.
RemitBudgetOutcomeKeepsFlow(st, res) ==
    IF res.raised THEN Effect(st, Failure(res.calls))
    ELSE Effect([st EXCEPT !.flow_state = DONE],
                Reply(RemitBudgetText(AnswerOf(res)), TRUE, res.used_rag,
                      res.sources, TRUE, res.calls))

\* Variant: after the budgeting tips the flow asks for the country again.
RemitBudgetOutcomeStartsOver(st, res) ==
    IF res.raised THEN Effect(st, Failure(res.calls))
    ELSE Effect([st EXCEPT !.flow_state = ASK_COUNTRY],
                Reply(RemitBudgetText(AnswerOf(res)), TRUE, res.used_rag,
                      res.sources, FALSE, res.calls))

\* the yes branch of the OFFER_BUDGET block from the return of answer_query on
RemitBudgetOutcome(st, res) ==
    IF res.raised THEN Effect(st, Failure(res.calls))
    ELSE Effect([st EXCEPT !.flow_state = DONE, !.flow = NoFlow],
                Reply(RemitBudgetText(AnswerOf(res)), TRUE, res.used_rag,
                      res.sources, TRUE, res.calls))

\* the SHOW_OPTIONS block and what follows it, entered with the state as the
\* earlier blocks left it
RemitFromShowOptions(user, st, env) ==
    IF st.flow_state = SHOW_OPTIONS
    THEN RemitOptionsOutcome(st, AnswerQuery(RemitOptionsQuery(st), REMIT_DOC_KEYS, FALSE, env))
    ELSE IF st.flow_state = OFFER_BUDGET
    THEN IF SaysYes(user)
         THEN RemitBudgetOutcome(st, AnswerQuery(RemitBudgetQuery(st), REMIT_DOC_KEYS, FALSE, env))
         ELSE Effect([st EXCEPT !.flow_state = DONE, !.flow = NoFlow],
                     Plain(RemitNoBudgetText, TRUE))
    ELSE Effect([st EXCEPT !.flow_state = DONE, !.flow = NoFlow], Plain(RemitEndText, TRUE))

\* the ASK_AMOUNT block: it stores the amount, sets flow_state and does not return
RemitAfterAmount(user, st) ==
    IF st.flow_state = ASK_AMOUNT
    THEN [st EXCEPT !.amount = IF ParseOptionalNumber(user) # None
                               THEN ParseOptionalNumber(user) ELSE @,
                    !.flow_state = SHOW_OPTIONS]
    ELSE st

HandleRemittanceTurn(user_text, st, env) ==
    LET cur == st.flow_state
        user == Strip(user_text)
    IN IF cur = ASK_COUNTRY
       THEN IF user = <<>>
            THEN Effect(st, Plain(RemitCountryReask, FALSE))
            ELSE Effect([st EXCEPT !.country = Some(Title(user)), !.flow_state = ASK_METHOD],
                        Plain(RemitMethodPrompt(Title(user)), FALSE))
       ELSE IF cur = ASK_METHOD
       THEN IF ~Truthy(NormalizeMethod(user))
            THEN Effect(st, Plain(RemitMethodReask, FALSE))
            ELSE Effect([st EXCEPT !.method = NormalizeMethod(user), !.flow_state = ASK_AMOUNT],
                        Plain(RemitAmountPrompt(NormalizeMethod(user)[1]), FALSE))
       ELSE RemitFromShowOptions(user, RemitAfterAmount(user, st), env)

\* -------------------------------------------------- flows/financial_flow.py
ASK_GOAL == "ask_goal"

ASK_HORIZ == "ask_horizon"

ASK_INCOME == "ask_income_optional"

ASK_BANKPATH == "ask_bankpath"

SHOW_TIPS == "show_tips"

FIN_DOC_KEYS ==
    << <<"documents required for work pass">>,
       <<"your guide to paylah">>,
       <<"transfer funds using dbs paylah">>,
       <<"financial institution directory">>,
       <<"eremittance guide to sending money home safely">>,
       <<"documents required for account opening">>,
       <<"posb payroll account for work permit holders in singapore">>,
       <<"mw handy guide english">>,
       <<"paylah">>, <<"paynow">>, <<"dbs", " ", "paylah">>, <<"dbs", " ", "paynow">>,
       <<"account", " ", "opening">>, <<"required", " ", "documents">>, <<"kyc">>,
       <<"work", " ", "permit">>, <<"s", " ", "pass">>, <<"employment", " ", "pass">>,
       <<"posb", " ", "payroll">>, <<"minimum", " ", "balance">>, <<"bank", " ", "fees">>,
       <<"limits">>, <<"transfer">>, <<"remittance">> >>

PLAN_KEYS ==
    << <<"budget">>, <<"budgeting">>, <<"savings">>, <<"emergency", " ", "fund">>,
       <<"remittance">>, <<"fees">>, <<"fx">>, <<"limits">>, <<"paylah">>, <<"paynow">>,
       <<"bank", " ", "account">>, <<"account", " ", "opening">>, <<"posb", " ", "payroll">>,
       <<"financial institution directory">>, <<"migrant", " ", "worker">>,
       <<"handy", " ", "guide">> >>

FinStartPrompt ==
    <<"Let's plan your money", "\n",
      "What's your main **goal**?", " (e.g., save for family, emergency fund, pay debt)">>

FinGoalReask == <<"What's your main **goal**?">>

FinHorizonPrompt == <<"What's your **time horizon**? (e.g., 3 months, 1 year)">>

FinHorizonReask == <<"Please share a rough **time horizon** (e.g., 6 months).">>

FinIncomePrompt ==
    <<"Optional: What's your **monthly income** in SGD? (e.g., 900) You can also reply **skip**.">>

FinBankPathPrompt ==
    <<"Would you like help **setting up a simple bank account** first? ",
      "This can make saving and remitting easier (e.g., POSB payroll, low minimum balance, PayLah/PayNow). (yes/no)">>

FinBankBlock(answer) ==
    <<"**Bank account setup (quick guide):**", "\n", "\n">> \o answer \o <<"\n", "\n">>

FinTipsText(bank_block, answer) ==
    bank_block \o <<"**Simple plan:**", "\n", "\n">> \o answer
    \o <<"\n", "\n", "You can ask another question anytime.">>

FinEndText == <<"Okay, ending this planning flow. Ask me anything else.">>

ResetFinancialState(st) ==
    Effect([st EXCEPT !.flow = "financial", !.flow_state = ASK_GOAL,
                      !.goal = None, !.horizon = None, !.income = None],
           Plain(FinStartPrompt, FALSE))

FinBankQuery == <<"Step-by-step **bank account setup** in Singapore for a migrant worker. ...">>

\* f"... Goal: {state.get('goal')}. Time horizon: {state.get('horizon')}.{income_part} ..."
FinTipsQuery(st) ==
    <<"Financial planning tips tailored for a migrant worker in Singapore. Goal: ">>
    \o (IF st.goal = None THEN <<"None">> ELSE st.goal[1])
    \o <<". Time horizon: ">>
    \o (IF st.horizon = None THEN <<"None">> ELSE st.horizon[1])
    \o <<".">>
    \o (IF Truthy(st.income) THEN <<" Monthly income: SGD ">> \o st.income[1] \o <<".">> ELSE <<>>)
    \o <<" Keep it practical and simple: ...">>

\* the SHOW_TIPS block from the return of answer_query on; before lists the
\* outside calls the ASK_BANKPATH block made in the same turn
FinTipsOutcome(st, res, before) ==
    IF res.raised THEN Effect(st, Failure(before \o res.calls))
    ELSE Effect([st EXCEPT !.flow_state = DONE, !.flow = NoFlow],
                Reply(FinTipsText(IF Truthy(st.bank_path_answer)
                                  THEN FinBankBlock(st.bank_path_answer[1]) ELSE <<>>,
                                  AnswerOf(res)),
                      TRUE,
                      res.used_rag \/ Truthy(st.bank_path_sources),
                      Dedupe((IF Truthy(st.bank_path_sources)
                              THEN st.bank_path_sources[1] ELSE <<>>) \o res.sources),
                      TRUE,
                      before \o res.calls))

\* the SHOW_TIPS block and what follows it
FinFromShowTips(st, env, before) ==
    IF st.flow_state = SHOW_TIPS
    THEN FinTipsOutcome(st,
             AnswerQuery(FinTipsQuery(st), PLAN_KEYS \o FIN_DOC_KEYS, FALSE, env), before)
    ELSE Effect([st EXCEPT !.flow_state = DONE, !.flow = NoFlow], Plain(FinEndText, TRUE))

\* the ASK_BANKPATH block from the return of its answer_query on, and the
\* blocks after it; res is read only when the block made the call
FinAfterBankPath(asked, st, res, env) ==
    IF asked /\ res.raised THEN Effect(st, Failure(res.calls))
    ELSE FinFromShowTips(
             IF asked
             THEN [st EXCEPT !.bank_path_answer = Some(AnswerOf(res)),
                             !.bank_path_sources = Some(res.sources),
                             !.flow_state = SHOW_TIPS]
             ELSE IF st.flow_state = ASK_BANKPATH
             THEN [st EXCEPT !.flow_state = SHOW_TIPS]
             ELSE st,
             env,
             IF asked THEN res.calls ELSE <<>>)

\* env2 holds the replies to the second answer_query call of the turn
HandleFinancialTurn(user_text, st, env, env2) ==
    LET cur == st.flow_state
        user == Strip(user_text)
        asked == cur = ASK_BANKPATH /\ SaysYes(user)
    IN IF cur = ASK_GOAL
       THEN IF user = <<>>
            THEN Effect(st, Plain(FinGoalReask, FALSE))
            ELSE Effect([st EXCEPT !.goal = Some(user), !.flow_state = ASK_HORIZ],
                        Plain(FinHorizonPrompt, FALSE))
       ELSE IF cur = ASK_HORIZ
       THEN IF user = <<>>
            THEN Effect(st, Plain(FinHorizonReask, FALSE))
            ELSE Effect([st EXCEPT !.horizon = Some(user), !.flow_state = ASK_INCOME],
                        Plain(FinIncomePrompt, FALSE))
       ELSE IF cur = ASK_INCOME
       THEN Effect([st EXCEPT !.income = IF ParseOptionalNumber(user) # None
                                         THEN ParseOptionalNumber(user) ELSE @,
                              !.flow_state = ASK_BANKPATH],
                   Plain(FinBankPathPrompt, FALSE))
       ELSE FinAfterBankPath(asked, st,
                IF asked THEN AnswerQuery(FinBankQuery, FIN_DOC_KEYS, FALSE, env)
                ELSE Raised(<<>>, <<>>),
                IF asked THEN env2 ELSE env)

\* ------------------------------------------------------ flows/scam_flow.py
ASK_SCENARIO == "ask_scenario"

ASK_CHANNEL == "ask_channel"

ASK_REQUESTS == "ask_requests"

SUMMARIZE_RISK == "summarize_risk"

PROVIDE_STEPS == "provide_steps"

CHANNEL_MAP ==
    << << <<"sms">>, <<"SMS">> >>,
       << <<"text">>, <<"SMS">> >>,
       << <<"whatsapp">>, <<"WhatsApp">> >>,
       << <<"wechat">>, <<"WeChat">> >>,
       << <<"telegram">>, <<"Telegram">> >>,
       << <<"call">>, <<"Phone call">> >>,
       << <<"phone">>, <<"Phone call">> >>,
       << <<"email">>, <<"Email">> >>,
       << <<"site">>, <<"Website">> >>,
       << <<"web">>, <<"Website">> >>,
       << <<"website">>, <<"Website">> >>,
       << <<"facebook">>, <<"Facebook">> >>,
       << <<"instagram">>, <<"Instagram">> >>,
       << <<"tiktok">>, <<"TikTok">> >>,
       << <<"agent">>, <<"In-person agent">> >>,
       << <<"in", " ", "person">>, <<"In-person agent">> >> >>

REQUEST_KEYWORDS ==
    << <<"upfront", " ", "fee">>, <<"processing", " ", "fee">>, <<"deposit">>,
       <<"gift", " ", "card">>, <<"crypto">>, <<"bitcoin">>, <<"bank", " ", "transfer">>,
       <<"paynow">>, <<"otp">>, <<"one-time", " ", "password">>, <<"password">>,
       <<"nric">>, <<"passport">>, <<"work", " ", "permit">>, <<"bank", " ", "details">>,
       <<"account", " ", "number">> >>

SCAM_KEYS ==
    << <<"scam">>, <<"fraud">>, <<"phishing">>, <<"impersonation">>, <<"anti-scam">>,
       <<"report">>, <<"police">>, <<"otp">>, <<"password">>, <<"upfront", " ", "fee">>,
       <<"deposit">>, <<"processing", " ", "fee">>, <<"bank", " ", "details">>,
       <<"account", " ", "number">> >>

ScamStartPrompt ==
    <<"I'm here to help you stay safe.", "\n", "\n",
      "**What happened?** Please describe the message/call/offer in your own words.">>

ScamScenarioReask == <<"Please describe the situation (what was said/sent to you).">>

ScamChannelPrompt ==
    <<"Where did this happen? (e.g., **SMS**, **WhatsApp**, **Phone call**, **Website**, **In-person agent**)">>

ScamChannelReask ==
    <<"Please tell me the channel: **SMS**, **WhatsApp/WeChat/Telegram**, **Phone call**, **Email/Website**, or **In-person agent**.">>

ScamRequestsPrompt ==
    <<"Thanks. Did they ask for anything like **money (upfront/fees)**, **bank details**, or your **OTP/passport**? ",
      "Feel free to paste exact wording. If nothing specific, you can say **not sure**.">>

ScamReviewText(answer) ==
    <<"**Let's review this safely:**", "\n", "\n">> \o answer
    \o <<"\n", "\n", "If you like, I can also show **how to report** and where to get official help. Would you like that? (yes/no)">>

ScamTipsText ==
    <<"Here are safe next steps: ...", "\n", "Stay safe. You can ask me anything else anytime.">>

ScamNoTipsText == <<"No problem. Stay safe - and feel free to ask anything else.">>

ScamEndText == <<"Okay, ending this safety check. Ask me anything else.">>

ResetScamState(st) ==
    Effect([st EXCEPT !.flow = "scam", !.flow_state = ASK_SCENARIO,
                      !.scam_scenario = None, !.scam_channel = None,
                      !.scam_requests = None],
           Plain(ScamStartPrompt, FALSE))

\* Variant: an unrecognised reply is stored as an unknown channel.
NormalizeChannelDefault(text) ==
    IF FirstMatch(CHANNEL_MAP, Lower(text)) = None
    THEN Some(<<"Unknown channel">>)
    ELSE FirstMatch(CHANNEL_MAP, Lower(text))

NormalizeChannel(text) == FirstMatch(CHANNEL_MAP, Lower(text))

\* the matches of r"\b(?:sgd|s\$|\$)?\s?\d{1,4}(?:[.,]\d{2})?\b" inside one atom, stripped
AmountsInAtom(a) ==
    CASE a = "200" -> << <<"200">> >>
      [] a = "900" -> << <<"900">> >>
      [] a = "1200" -> << <<"1200">> >>
      [] a = "6" -> << <<"6">> >>
      [] a = "1,200" -> << <<"1">>, <<"200">> >>
      [] OTHER -> <<>>

RECURSIVE AmountsIn(_)
AmountsIn(low) == IF low = <<>> THEN <<>> ELSE AmountsInAtom(Head(low)) \o AmountsIn(Tail(low))

ExtractRequests(text) ==
    LET low == Lower(text)
        hits == SelectSeq(REQUEST_KEYWORDS, LAMBDA k : Contains(k, low))
    IN Dedupe(hits \o AmountsIn(low))

ScamQuery(st) ==
    <<"Scam safety check for a migrant worker in Singapore. Channel: ">>
    \o (IF Truthy(st.scam_channel) THEN st.scam_channel[1] ELSE <<"Unknown channel">>)
    \o <<". Key details: ">>
    \o (IF Truthy(st.scam_scenario) THEN st.scam_scenario[1] ELSE <<>>)
    \o <<". Requests mentioned: ">>
    \o (IF Truthy(st.scam_requests) /\ Join(", ", st.scam_requests[1]) # <<>>
        THEN Join(", ", st.scam_requests[1]) ELSE <<"No specific requests">>)
    \o <<". Identify red flags in bullet points, ...">>

\* Variant: the SUMMARIZE_RISK block calls answer_query a second time.
ScamReviewOutcomeCallsTwice(st, res) ==
    IF res.raised THEN Effect(st, Failure(res.calls \o res.calls))
    ELSE Effect([st EXCEPT !.flow_state = PROVIDE_STEPS],
                Reply(ScamReviewText(AnswerOf(res)), TRUE, res.used_rag,
                      res.sources, FALSE, res.calls \o res.calls))

\* the SUMMARIZE_RISK block from the return of answer_query on
ScamReviewOutcome(st, res) ==
    IF res.raised THEN Effect(st, Failure(res.calls))
    ELSE Effect([st EXCEPT !.flow_state = PROVIDE_STEPS],
                Reply(ScamReviewText(AnswerOf(res)), TRUE, res.used_rag,
                      res.sources, FALSE, res.calls))

\* the SUMMARIZE_RISK block and what follows it
ScamFromSummarize(user, st, env) ==
    IF st.flow_state = SUMMARIZE_RISK
    THEN ScamReviewOutcome(st, AnswerQuery(ScamQuery(st), SCAM_KEYS, FALSE, env))
    ELSE IF st.flow_state = PROVIDE_STEPS
    THEN Effect([st EXCEPT !.flow_state = DONE, !.flow = NoFlow],
                Plain(IF SaysYes(user) THEN ScamTipsText ELSE ScamNoTipsText, TRUE))
    ELSE Effect([st EXCEPT !.flow_state = DONE, !.flow = NoFlow], Plain(ScamEndText, TRUE))

\* the ASK_REQUESTS block: it stores the requests, sets flow_state and does
\* not return
ScamAfterRequests(user, st) ==
    IF st.flow_state = ASK_REQUESTS
    THEN [st EXCEPT !.scam_requests =
                        Some(IF ExtractRequests(user) # <<>> THEN ExtractRequests(user)
                             ELSE IF Lower(user) = <<"not", " ", "sure">>
                             THEN << <<"not", " ", "sure">> >>
                             ELSE <<>>),
                    !.flow_state = SUMMARIZE_RISK]
    ELSE st

HandleScamTurn(user_text, st, env) ==
    LET cur == st.flow_state
        user == Strip(user_text)
    IN IF cur = ASK_SCENARIO
       THEN IF user = <<>>
            THEN Effect(st, Plain(ScamScenarioReask, FALSE))
            ELSE Effect([st EXCEPT !.scam_scenario = Some(user), !.flow_state = ASK_CHANNEL],
                        Plain(ScamChannelPrompt, FALSE))
       ELSE IF cur = ASK_CHANNEL
       THEN IF ~Truthy(NormalizeChannel(user))
            THEN Effect(st, Plain(ScamChannelReask, FALSE))
            ELSE Effect([st EXCEPT !.scam_channel = NormalizeChannel(user),
                                   !.flow_state = ASK_REQUESTS],
                        Plain(ScamRequestsPrompt, FALSE))
       ELSE ScamFromSummarize(user, ScamAfterRequests(user, st), env)

\* ------------------------------------------------------- the session state
\* st.session_state as app.py and the flows use it; a key that was never
\* written reads as None through .get(), so it is held as None.
InitState ==
    [flow |-> NoFlow, flow_state |-> NoLabel,
     country |-> None, method |-> None, amount |-> None,
     goal |-> None, horizon |-> None, income |-> None,
     bank_path_answer |-> None, bank_path_sources |-> None,
     scam_scenario |-> None, scam_channel |-> None, scam_requests |-> None]

NoOut == Plain(<<>>, FALSE)

\* the tally of one run of a flow: the answer_query calls of its steps, each
\* with the flow_state the step found and the one it left, up to the first
\* step in which answer_query raised, and the number of steps taken
NoRun == [asked |-> <<>>, failed |-> FALSE, steps |-> 0]

NoLast ==
    [op |-> "init", flow |-> NoFlow, input |-> <<>>, from |-> NoLabel,
     entered |-> <<>>, starts |-> 0, run |-> NoRun]

\* the app's own keys of st.session_state before the first run, and the
\* conversation history (each entry by its role and its meta label)
NoApp ==
    [run_backend |-> FALSE, pending_query |-> <<>>, pending_flow |-> NoFlow,
     flow_pending_input |-> <<>>, messages |-> <<>>, turns |-> 0]

\* no call of answer_query recorded yet
NoCall ==
    [done |-> FALSE, user_raw |-> <<>>, require_keywords |-> <<>>,
     force_general |-> FALSE, env |-> [index |-> IndexRaises, rag |-> ChatFails,
     gen |-> ChatFails], res |-> Raised(<<>>, <<>>)]

\* the module global _LC_INDEX before any call of _get_index, with no session
\* inside retrieve_context
NoIndex == [index |-> None, built |-> 0, used |-> {}, sessions |-> <<>>]

\* no application of clamp_context or filter_context recorded yet
NoPure == [op |-> "none"]

\* what the user types, by the state the flow is in
TextsAt(label) ==
    CASE label = ASK_COUNTRY -> { <<>>, <<" ", "\n">>, <<" ", "vietnam">> }
      [] label = ASK_METHOD ->
            { <<>>, <<" ">>, <<"dunno">>, <<"I'll use my", " ", "Bank">>, <<"PayLah">>,
              <<"PayNow", " ", "or", " ", "cash">> }
      [] label \in {ASK_AMOUNT, ASK_INCOME} ->
            { <<>>, <<"Skip">>, <<"a lot">>, <<"about", " ", "1,200", " ", "dollars">>,
              <<" ", "200", " ", "or", " ", "1,200">> }
      [] label \in {ASK_GOAL, ASK_HORIZ, ASK_SCENARIO} ->
            { <<>>, <<" ", "\n">>, <<"6", " ", "months">> }
      [] label = ASK_CHANNEL -> { <<>>, <<" ">>, <<"dunno">>, <<"an", " ", "SMS">> }
      [] label = ASK_REQUESTS ->
            { <<>>, <<"Not", " ", "sure">>, <<"my", " ", "OTP", " ", "and", " ", "200">> }
      [] OTHER -> { <<>>, <<"YES">>, <<"no">> }

\* the outside world's replies during one answer_query call of a flow step
GoodAnswer == ChatSays(<<"Summary.", " ", "[scam.pdf]">>)

GeneralAdvice == ChatSays(<<"General", " ", "advice.">>)

HitNodes == [raises |-> FALSE, nodes |-> <<NodeScam, NodePaylah>>]

MissNodes == [raises |-> FALSE, nodes |-> <<NodeWeather>>]

FlowEnvs ==
    { [index |-> HitNodes, rag |-> GoodAnswer, gen |-> GeneralAdvice],
      [index |-> HitNodes, rag |-> ChatSays(NOT_FOUND_TOKEN), gen |-> GeneralAdvice],
      [index |-> HitNodes, rag |-> ChatFails, gen |-> GeneralAdvice],
      [index |-> MissNodes, rag |-> GoodAnswer, gen |-> GeneralAdvice],
      [index |-> MissNodes, rag |-> GoodAnswer, gen |-> ChatFails],
      [index |-> IndexRaises, rag |-> GoodAnswer, gen |-> GeneralAdvice] }

\* the replies to draw for a step taken in state `label`: the states whose
\* step never reaches answer_query read no reply, so one stands for all
EnvsAt(label) ==
    IF label \in {ASK_AMOUNT, SHOW_OPTIONS, OFFER_BUDGET, ASK_BANKPATH, SHOW_TIPS,
                  ASK_REQUESTS, SUMMARIZE_RISK}
    THEN FlowEnvs
    ELSE {[index |-> IndexRaises, rag |-> ChatFails, gen |-> ChatFails]}

\* the replies to a second answer_query call of the same step
SecondEnvsAt(label) ==
    IF label = ASK_BANKPATH THEN FlowEnvs
    ELSE {[index |-> IndexRaises, rag |-> ChatFails, gen |-> ChatFails]}

\* ------------------------------------------------ the flows, driven directly
\* what `last` remembers: the operation that produced the current state, the
\* flow whose function ran, the text it was given, the flow_state it found, the
\* prompt emitted when the current flow_state was entered, and the number of
\* starts so far
FlowInit ==
    /\ call = NoCall
    /\ state = InitState
    /\ out = NoOut
    /\ last = NoLast
    /\ app = NoApp
    /\ lc = NoIndex
    /\ pure = NoPure

Started(f, e) ==
    /\ last.starts < MaxStarts
    /\ state' = e.state
    /\ out' = e.out
    /\ last' = [op |-> "start", flow |-> f, input |-> <<>>, from |-> state.flow_state,
                entered |-> e.out.text,
                starts |-> last.starts + 1, run |-> NoRun]
    /\ UNCHANGED <<call, app, lc, pure>>

StartRemittance == \E e \in {ResetRemittanceState(state)} : Started("remittance", e)

StartFinancial == \E e \in {ResetFinancialState(state)} : Started("financial", e)

StartScam == \E e \in {ResetScamState(state)} : Started("scam", e)

\* the answer_query entries of a step's calls, with where the step began and
\* ended
AsksOf(calls, from, to) ==
    LET asks == SelectSeq(calls, LAMBDA c : c.op = "answer_query")
    IN [i \in DOMAIN asks |->
          [from |-> from, to |-> to, require_keywords |-> asks[i].require_keywords,
           force_general |-> asks[i].force_general]]

\* steps counts the steps that took their input (a step that re-asks leaves
\* flow_state as it found it and is not counted)
Tally(run, from, e) ==
    IF run.failed THEN run
    ELSE IF e.out.raised THEN [run EXCEPT !.failed = TRUE]
    ELSE [run EXCEPT !.asked = @ \o AsksOf(e.out.calls, from, e.state.flow_state),
                     !.steps = IF e.state.flow_state = from THEN @ ELSE @ + 1]

Stepped(f, text, e) ==
    /\ state' = e.state
    /\ out' = e.out
    /\ last' = [op |-> "step", flow |-> f, input |-> text, from |-> state.flow_state,
                entered |-> IF e.state.flow_state = state.flow_state THEN last.entered
                            ELSE e.out.text,
                starts |-> last.starts, run |-> Tally(last.run, state.flow_state, e)]
    /\ UNCHANGED <<call, app, lc, pure>>

StepRemittance ==
    /\ state.flow = "remittance"
    /\ \E text \in TextsAt(state.flow_state), env \in EnvsAt(state.flow_state) :
          \E e \in {HandleRemittanceTurn(text, state, env)} : Stepped("remittance", text, e)

StepFinancial ==
    /\ state.flow = "financial"
    /\ \E text \in TextsAt(state.flow_state), env \in EnvsAt(state.flow_state),
             env2 \in SecondEnvsAt(state.flow_state) :
          \E e \in {HandleFinancialTurn(text, state, env, env2)} : Stepped("financial", text, e)

StepScam ==
    /\ state.flow = "scam"
    /\ \E text \in TextsAt(state.flow_state), env \in EnvsAt(state.flow_state) :
          \E e \in {HandleScamTurn(text, state, env)} : Stepped("scam", text, e)

FlowNext ==
    \/ StartRemittance
    \/ StartFinancial
    \/ StartScam
    \/ StepRemittance
    \/ StepFinancial
    \/ StepScam

FlowSpec == FlowInit /\ [][FlowNext]_vars

\* ----------------------------------------------- answer engine, called alone
\* one call of answer_query on inputs and replies drawn from the pools
CallAnswer ==
    /\ ~call.done
    /\ \E q \in Queries, k \in KeywordTuples, f \in BOOLEAN, env \in Envs :
          call' = [done |-> TRUE, user_raw |-> q, require_keywords |-> k,
                   force_general |-> f, env |-> env,
                   res |-> AnswerQuery(q, k, f, env)]
    /\ UNCHANGED <<state, out, last, app, lc, pure>>

AnswerInit ==
    /\ call = NoCall
    /\ state = InitState
    /\ out = NoOut
    /\ last = NoLast
    /\ app = NoApp
    /\ lc = NoIndex
    /\ pure = NoPure

AnswerNext == CallAnswer

AnswerSpec == AnswerInit /\ [][AnswerNext]_vars

\* what retrieve_context returned in the recorded call
Retrieved == RetrieveContext(call.user_raw, TOP_K, call.env.index)

\* the recorded call's strict-pass output as the client returns it
RagText == SealionChat(call.env.rag).text

MadeChat(prompt) == \E i \in DOMAIN call.res.calls : call.res.calls[i].prompt = prompt

\* no retrieved passage contains, case-insensitively, any required keyword
NoKeywordAnywhere ==
    \A i \in DOMAIN Retrieved.ctx : \A j \in DOMAIN call.require_keywords :
        ~Contains(Lower(call.require_keywords[j]), Lower(Retrieved.ctx[i]))

\* the recorded call's general-pass output as the client returns it
GenText == SealionChat(call.env.gen).text

\* the strict-pass output contains one of the fixed refusal phrases
RagHasRefusalPhrase == \E pat \in REFUSAL_PATTERNS : Contains(pat, Lower(RagText))

\* the recorded call with the strict-pass reply replaced by the bare sentinel
SentinelOutcome ==
    AnswerQuery(call.user_raw, call.require_keywords, call.force_general,
                [call.env EXCEPT !.rag = ChatSays(NOT_FOUND_TOKEN)])

\* ------------------------------------------------------ intent classifiers
\* re.search over the lowercased text: the text holds one of the words or
\* phrases the patterns spell out (an atom of a text is a whole word or
\* phrase, so the \b of the patterns holds at its two ends)
HoldsAny(words, text) == text # <<>> /\ \E i \in DOMAIN text : Lower(text)[i] \in words

REMITTANCE_INTENT_PATTERNS ==
    {"remit", "remittance", "send money", "transfer money", "transfer funds",
     "remesa", "remitir"}

FIN_INTENT_PATTERNS ==
    {"budget", "budgeting", "save", "savings", "financial plan", "planning", "invest",
     "investment", "expense", "expenses", "spend", "spending", "emergency fund"}

\* the patterns are matched against the lowercased text with no IGNORECASE
\* flag, so the alternatives written in capitals (OTP, MOM, ICA) match nothing
SCAM_INTENT_PATTERNS ==
    {"scam", "scammer", "suspicious", "fraud", "cheat", "cheated", "fake", "phishing",
     "loan shark", "ah long", "job scam", "love scam", "investment scam",
     "agent fee", "upfront fee", "processing fee", "deposit", "gift card", "crypto",
     "bitcoin", "one-time password", "password", "bank account", "transfer now",
     "suspect", "not sure", "too good to be true"}

\* Variant: only the words remit and remittance are looked for.
IsRemittanceIntentWordOnly(text) == HoldsAny({"remit", "remittance"}, text)

IsRemittanceIntent(text) == HoldsAny(REMITTANCE_INTENT_PATTERNS, text)

IsFinancialIntent(text) == HoldsAny(FIN_INTENT_PATTERNS, text)

IsScamIntent(text) == HoldsAny(SCAM_INTENT_PATTERNS, text)

\* Variant: the scam classifier is asked first.
IntentOfScamFirst(text) ==
    IF IsScamIntent(text) THEN "scam"
    ELSE IF IsRemittanceIntent(text) THEN "remittance"
    ELSE IF IsFinancialIntent(text) THEN "financial"
    ELSE NoFlow

\* the if / elif chain of the router: the flow to start, or NoFlow
IntentOf(text) ==
    IF IsRemittanceIntent(text) THEN "remittance"
    ELSE IF IsFinancialIntent(text) THEN "financial"
    ELSE IF IsScamIntent(text) THEN "scam"
    ELSE NoFlow

\* ----------------------------------------------- a session: its inputs
\* what the user submits through the form, by the state the session is in
AppTextsAt(label) ==
    CASE label = NoLabel ->
            { <<" ">>, <<"random", " ", "question">>, <<"Send money", " ", "home">>,
              <<"I want to ", "send money", " overseas.">>,
              <<"budget", " ", "to", " ", "send money">>, <<"save", " ", "a", " ", "deposit">>,
              <<"my", " ", "OTP">>, <<"is this a ", "scam">> }
      [] label = ASK_COUNTRY -> { <<" ", "vietnam">>, <<"budget">> }
      [] label = ASK_METHOD -> { <<"dunno">>, <<"PayLah">> }
      [] label \in {ASK_AMOUNT, ASK_INCOME} -> { <<"Skip">>, <<"budget">> }
      [] label \in {ASK_GOAL, ASK_HORIZ, ASK_SCENARIO} -> { <<"6", " ", "months">> }
      [] label = ASK_CHANNEL -> { <<"budget">>, <<"an", " ", "SMS">> }
      [] label = ASK_REQUESTS -> { <<"Not", " ", "sure">> }
      [] OTHER -> { <<"YES">>, <<"no">> }

\* the outside world's replies during a turn of a session
AppEnvs ==
    { [index |-> HitNodes, rag |-> GoodAnswer, gen |-> GeneralAdvice],
      [index |-> HitNodes, rag |-> ChatSays(NOT_FOUND_TOKEN), gen |-> GeneralAdvice],
      [index |-> HitNodes, rag |-> ChatFails, gen |-> GeneralAdvice] }

AppEnvsAt(label) ==
    IF label \in {ASK_AMOUNT, SHOW_OPTIONS, OFFER_BUDGET, ASK_BANKPATH, SHOW_TIPS,
                  ASK_REQUESTS, SUMMARIZE_RISK}
    THEN AppEnvs
    ELSE {[index |-> IndexRaises, rag |-> ChatFails, gen |-> ChatFails]}

AppSecondEnvsAt(label) ==
    IF label = ASK_BANKPATH THEN AppEnvs
    ELSE {[index |-> IndexRaises, rag |-> ChatFails, gen |-> ChatFails]}

\* ------------------------------------------------------------------ app.py
Msg(role, meta) == [role |-> role, meta |-> meta]

UserMsg == Msg("user", "")

Loader == Msg("assistant", "Thinking")

StartMeta(f) ==
    CASE f = "remittance" -> "Flow: Remittance"
      [] f = "financial" -> "Flow: Financial Planning"
      [] OTHER -> "Flow: Scam Safety"

\* "Flow: Guidance" if not used_backend else grounded / general
MetaOf(used_backend, used_rag) ==
    IF ~used_backend THEN "Flow: Guidance"
    ELSE IF used_rag THEN "Grounded" ELSE "General"

\* the loader is replaced when the last entry is an assistant entry, else
\* the reply is appended
ReplaceLoader(messages, m) ==
    IF messages # <<>> /\ messages[Len(messages)].role = "assistant"
    THEN [messages EXCEPT ![Len(messages)] = m]
    ELSE Append(messages, m)

\* the texts of the three quick-action buttons
QUICK_ACTIONS ==
    << <<"I want to ask about financial ", "planning", ".">>,
       <<"I want to ", "send money", " overseas.">>,
       <<"I think I might be a victim of a ", "scam", ".">> >>

\* answer_query(q): require_keywords and force_general take their defaults
PlainKeywords == <<>>

\* reset_<flow>_state on the session
ResetState(f, st) ==
    CASE f = "remittance" -> ResetRemittanceState(st)
      [] f = "financial" -> ResetFinancialState(st)
      [] OTHER -> ResetScamState(st)

\* Variant: the flow marker is cleared and flow_state is left as the flow set it.
EndFlowIfDoneKeepsLabel(st, done) == IF done THEN [st EXCEPT !.flow = NoFlow] ELSE st

\* if out.get("done"): flow = None; flow_state = None
EndFlowIfDone(st, done) ==
    IF done THEN [st EXCEPT !.flow = NoFlow, !.flow_state = NoLabel] ELSE st

\* what `last` remembers in a session: the operation, the text it was given,
\* the flow marker and flow_state it found, what it did with the text
\* (start / plain / step / none), the flow it started or stepped, the
\* require_keywords of a plain call, and the flow marker and flow_state as
\* the flow function left them
AppLast(op, input, st, routed, f, left) ==
    [op |-> op, input |-> input, was |-> st.flow, from |-> st.flow_state,
     routed |-> routed, flow |-> f, keywords |-> PlainKeywords,
     left |-> [flow |-> left.flow, flow_state |-> left.flow_state]]

\* the router of a text that arrives with no flow active: the start of the
\* flow f, or the scheduling of a plain call (with a loader entry when the
\* text came from the form)
Route(op, text, f, e, with_loader) ==
    IF f # NoFlow
    THEN /\ state' = e.state
         /\ out' = e.out
         /\ app' = [app EXCEPT !.messages = app.messages
                                               \o <<UserMsg, Msg("assistant", StartMeta(f))>>,
                               !.turns = @ + 1]
         /\ last' = AppLast(op, text, state, "start", f, e.state)
    ELSE /\ state' = state
         /\ out' = NoOut
         /\ app' = [app EXCEPT !.messages = app.messages \o <<UserMsg>>
                                               \o (IF with_loader THEN <<Loader>> ELSE <<>>),
                               !.pending_query = text,
                               !.run_backend = TRUE,
                               !.turns = @ + 1]
         /\ last' = AppLast(op, text, state, "plain", NoFlow, state)

\* Variant: the classifiers are tried on every text, a flow being active or not.
SubmitClassifiesFirst ==
    /\ ~app.run_backend
    /\ app.turns < MaxTurns
    /\ \E text \in AppTextsAt(state.flow_state) :
          LET ui_q == Strip(text)
          IN /\ ui_q # <<>>
             /\ IF state.flow = NoFlow \/ IntentOf(ui_q) # NoFlow
                THEN Route("submit", ui_q, IntentOf(ui_q), ResetState(IntentOf(ui_q), state),
                           TRUE)
                ELSE /\ app' = [app EXCEPT !.messages = app.messages \o <<UserMsg, Loader>>,
                                           !.pending_flow = state.flow,
                                           !.flow_pending_input = ui_q,
                                           !.run_backend = TRUE,
                                           !.turns = @ + 1]
                     /\ last' = AppLast("submit", ui_q, state, "step", state.flow, state)
                     /\ out' = NoOut
                     /\ state' = state
    /\ UNCHANGED <<call, lc, pure>>

\* the form: a text is submitted
Submit ==
    /\ ~app.run_backend
    /\ app.turns < MaxTurns
    /\ \E text \in AppTextsAt(state.flow_state) :
          LET ui_q == Strip(text)
          IN /\ ui_q # <<>>
             /\ IF state.flow = NoFlow
                THEN Route("submit", ui_q, IntentOf(ui_q), ResetState(IntentOf(ui_q), state),
                           TRUE)
                ELSE /\ app' = [app EXCEPT !.messages = app.messages \o <<UserMsg, Loader>>,
                                           !.pending_flow = state.flow,
                                           !.flow_pending_input = ui_q,
                                           !.run_backend = TRUE,
                                           !.turns = @ + 1]
                     /\ last' = AppLast("submit", ui_q, state, "step", state.flow, state)
                     /\ out' = NoOut
                     /\ state' = state
    /\ UNCHANGED <<call, lc, pure>>

\* a quick-action button is pressed
QuickAction ==
    /\ ~app.run_backend
    /\ app.turns < MaxTurns
    /\ \E i \in DOMAIN QUICK_ACTIONS :
          Route("button", QUICK_ACTIONS[i], IntentOf(QUICK_ACTIONS[i]),
                ResetState(IntentOf(QUICK_ACTIONS[i]), state), FALSE)
    /\ UNCHANGED <<call, lc, pure>>

\* Variant: the Clear button also ends the flow in progress.
ClearEndsTheFlow ==
    /\ ~app.run_backend
    /\ app.messages # <<>>
    /\ app' = [app EXCEPT !.messages = <<>>]
    /\ state' = [state EXCEPT !.flow = NoFlow, !.flow_state = NoLabel]
    /\ last' = AppLast("clear", <<>>, state, "none", NoFlow, state')
    /\ out' = NoOut
    /\ UNCHANGED <<call, lc, pure>>

\* the Clear button
Clear ==
    /\ ~app.run_backend
    /\ app.messages # <<>>
    /\ app' = [app EXCEPT !.messages = <<>>]
    /\ last' = AppLast("clear", <<>>, state, "none", NoFlow, state)
    /\ out' = NoOut
    /\ UNCHANGED <<call, state, lc, pure>>

\* the plain path of the runner from the return of answer_query on
PlainOutcome(q, res) ==
    /\ state' = state
    /\ last' = AppLast("run", q, state, "plain", NoFlow, state)
    /\ IF res.raised
       THEN /\ out' = Failure(res.calls)
            /\ app' = [app EXCEPT !.run_backend = FALSE, !.pending_query = <<>>]
       ELSE /\ out' = Reply(Strip(res.answer), TRUE, res.used_rag, res.sources, FALSE,
                            res.calls)
            /\ app' = [app EXCEPT !.run_backend = FALSE, !.pending_query = <<>>,
                                  !.messages = ReplaceLoader(app.messages,
                                                   Msg("assistant", MetaOf(TRUE, res.used_rag)))]

\* the runner with a plain query pending
RunPlain ==
    /\ app.run_backend
    /\ app.pending_query # <<>>
    /\ \E env \in AppEnvs :
          PlainOutcome(app.pending_query,
                       AnswerQuery(app.pending_query, PlainKeywords, FALSE, env))
    /\ UNCHANGED <<call, lc, pure>>

\* the flow path of the runner from the return of the flow function on
FlowOutcome(f, text, e) ==
    /\ last' = AppLast("run", text, state, "step", f, e.state)
    /\ out' = e.out
    /\ IF e.out.raised
       THEN /\ state' = e.state
            /\ app' = [app EXCEPT !.run_backend = FALSE]
       ELSE /\ state' = EndFlowIfDone(e.state, e.out.done)
            /\ app' = [app EXCEPT !.run_backend = FALSE,
                                  !.pending_flow = NoFlow,
                                  !.flow_pending_input = <<>>,
                                  !.messages = ReplaceLoader(app.messages,
                                                   Msg("assistant",
                                                       MetaOf(e.out.used_backend,
                                                              e.out.used_rag)))]

\* the step of the flow named flow_name
HandleTurn(flow_name, text, st, env, env2) ==
    CASE flow_name = "remittance" -> HandleRemittanceTurn(text, st, env)
      [] flow_name = "financial" -> HandleFinancialTurn(text, st, env, env2)
      [] flow_name = "scam" -> HandleScamTurn(text, st, env)
      [] OTHER -> Effect([st EXCEPT !.flow = NoFlow, !.flow_state = NoLabel],
                         Plain(<<"Okay, ending current flow. Ask me anything else.">>, TRUE))

\* the runner with no plain query pending
RunFlow ==
    /\ app.run_backend
    /\ app.pending_query = <<>>
    /\ IF app.pending_flow # NoFlow /\ app.flow_pending_input # <<>>
       THEN \E env \in AppEnvsAt(state.flow_state), env2 \in AppSecondEnvsAt(state.flow_state) :
               FlowOutcome(app.pending_flow, app.flow_pending_input,
                           HandleTurn(app.pending_flow, app.flow_pending_input, state,
                                      env, env2))
       ELSE /\ app' = [app EXCEPT !.run_backend = FALSE]
            /\ UNCHANGED <<state, out, last>>
    /\ UNCHANGED <<call, lc, pure>>

AppInit ==
    /\ call = NoCall
    /\ state = InitState
    /\ out = NoOut
    /\ last = AppLast("init", <<>>, InitState, "none", NoFlow, InitState)
    /\ app = NoApp
    /\ lc = NoIndex
    /\ pure = NoPure

AppNext ==
    \/ Submit
    \/ QuickAction
    \/ Clear
    \/ RunPlain
    \/ RunFlow

AppSpec == AppInit /\ [][AppNext]_vars

\* ------------------------------------------ rag_backend.py: the index handle
\* Streamlit runs the script of every browser session on a thread of its own
\* inside one process, so the sessions share the module global _LC_INDEX.
\* _get_index tests the global, constructs a handle and stores it in separate
\* steps, with no lock; a thread switch can fall between any two of them (the
\* constructor does network I/O). Handles are numbered in construction order.
MaxSessions == 3

\* calls of retrieve_context one session makes
MaxCalls == 2

Sessions == 1..MaxSessions

\* one session outside retrieve_context
Idle == [pc |-> "idle", local |-> 0, got |-> None, calls |-> 0]

IndexInit ==
    /\ call = NoCall
    /\ state = InitState
    /\ out = NoOut
    /\ last = NoLast
    /\ app = NoApp
    /\ lc = [NoIndex EXCEPT !.sessions = [s \in Sessions |-> Idle]]
    /\ pure = NoPure

\* the session s moves to sn, the shared part changes as given
IndexStep(s, sn, index, built, used) ==
    /\ lc' = [index |-> index, built |-> built, used |-> used,
              sessions |-> [lc.sessions EXCEPT ![s] = sn]]
    /\ UNCHANGED <<call, state, out, last, app, pure>>

\* retrieve_context calls _get_index, which reads the global:
\* if _LC_INDEX is None
GetIndexTest(s) ==
    LET me == lc.sessions[s] IN
    /\ me.pc = "idle"
    /\ me.calls < MaxCalls
    /\ IndexStep(s, [me EXCEPT !.pc = IF lc.index = None THEN "construct"
                                     ELSE "return",
                               !.got = None],
                 lc.index, lc.built, lc.used)

\* LlamaCloudIndex(...) returns a new handle
GetIndexConstruct(s) ==
    LET me == lc.sessions[s] IN
    /\ me.pc = "construct"
    /\ IndexStep(s, [me EXCEPT !.pc = "store", !.local = lc.built + 1],
                 lc.index, lc.built + 1, lc.used)

\* LlamaCloudIndex(...) raises: retrieve_context catches it and returns
\* ([], []); the global keeps its value
GetIndexConstructRaises(s) ==
    LET me == lc.sessions[s] IN
    /\ me.pc = "construct"
    /\ IndexStep(s, [me EXCEPT !.pc = "idle", !.calls = me.calls + 1],
                 lc.index, lc.built, lc.used)

\* _LC_INDEX = <the handle just constructed>
GetIndexStore(s) ==
    LET me == lc.sessions[s] IN
    /\ me.pc = "store"
    /\ IndexStep(s, [me EXCEPT !.pc = "return"],
                 Some(me.local), lc.built, lc.used)

\* return _LC_INDEX: the global is read again
GetIndexReturn(s) ==
    LET me == lc.sessions[s] IN
    /\ me.pc = "return"
    /\ IndexStep(s, [me EXCEPT !.pc = "retrieve", !.got = lc.index],
                 lc.index, lc.built, lc.used)

\* .as_retriever().retrieve(query) on the handle _get_index returned
Retrieve(s) ==
    LET me == lc.sessions[s] IN
    /\ me.pc = "retrieve"
    /\ IndexStep(s, [me EXCEPT !.pc = "idle", !.calls = me.calls + 1],
                 lc.index, lc.built, lc.used \cup {me.got[1]})

IndexNext ==
    \/ \E s \in Sessions : GetIndexTest(s)
    \/ \E s \in Sessions : GetIndexConstruct(s)
    \/ \E s \in Sessions : GetIndexConstructRaises(s)
    \/ \E s \in Sessions : GetIndexStore(s)
    \/ \E s \in Sessions : GetIndexReturn(s)
    \/ \E s \in Sessions : Retrieve(s)

IndexSpec == IndexInit /\ [][IndexNext]_vars


\* --------------------------- rag_backend.py: clamp_context, filter_context
\* The two functions applied on their own. Their only caller is answer_query,
\* which passes the passages retrieve_context returned (stripped, blank ones
\* dropped) or a selection of them; max_chars is the function's parameter.
MaxPassages == 3

\* budgets small enough to cut the passages of the pool
MaxBudget == 9

Passages ==
    { RetrieveContext(<<>>, TOP_K, [raises |-> FALSE, nodes |-> ns]).ctx :
        ns \in SeqsUpTo(NodePool, MaxPassages) }

Budgets == 0..MaxBudget \cup {DEFAULT_MAX_CHARS}

\* include_any as answer_query passes it: the lower-cased require_keywords,
\* or the focus terms
IncludeAny ==
    { <<>>, << <<"scam">>, <<"otp">> >>, << <<"paylah">>, <<"scam">> >>, << <<"otp">> >>,
      FocusTerms(<<"s", " ", "pass">>) }

ContextInit ==
    /\ call = NoCall
    /\ state = InitState
    /\ out = NoOut
    /\ last = NoLast
    /\ app = NoApp
    /\ lc = NoIndex
    /\ pure \in [op : {"none"}, chunks : Passages, max_chars : Budgets,
                 include_any : IncludeAny]

\* clamp_context(chunks, max_chars): the list `out` and the joined text
CallClampContext ==
    /\ pure.op = "none"
    /\ pure' = [op |-> "clamp", chunks |-> pure.chunks,
                max_chars |-> pure.max_chars, include_any |-> pure.include_any,
                parts |-> ClampLoop(pure.chunks, pure.max_chars, <<>>, 0),
                text |-> ClampContext(pure.chunks, pure.max_chars)]
    /\ UNCHANGED <<call, state, out, last, app, lc>>

\* clamp_context applied to the passages of a clamped output
CallClampContextAgain ==
    /\ pure.op = "clamp"
    /\ pure' = [op |-> "clamp_again", chunks |-> pure.chunks,
                max_chars |-> pure.max_chars, include_any |-> pure.include_any,
                parts |-> ClampLoop(pure.parts, pure.max_chars, <<>>, 0),
                text |-> ClampContext(pure.parts, pure.max_chars),
                first |-> pure.text]
    /\ UNCHANGED <<call, state, out, last, app, lc>>

\* filter_context(chunks, include_any)
CallFilterContext ==
    /\ pure.op = "none"
    /\ pure' = [op |-> "filter", chunks |-> pure.chunks,
                max_chars |-> pure.max_chars, include_any |-> pure.include_any,
                result |-> FilterContext(pure.chunks, pure.include_any)]
    /\ UNCHANGED <<call, state, out, last, app, lc>>

ContextNext ==
    \/ CallClampContext
    \/ CallClampContextAgain
    \/ CallFilterContext

ContextSpec == ContextInit /\ [][ContextNext]_vars

\* ------------------------------------------------------------------ claims
\* C1: with force_general false and a non-empty require_keywords none of
\* which occurs (case-insensitively, as a substring) in any retrieved passage,
\* every passage is discarded, no strict (grounded) completion call is made and
\* the result has used_rag = false, whatever was retrieved.
C1_KeywordGateForcesFallback ==
    (call.done /\ ~call.force_general /\ call.require_keywords # <<>> /\ NoKeywordAnywhere)
        => /\ call.res.kept = <<>>
           /\ ~MadeChat("strict")
           /\ call.res.used_rag = FALSE

C1_Witness ==
    /\ call.done /\ ~call.force_general /\ call.require_keywords # <<>>
    /\ NoKeywordAnywhere
    /\ Len(Retrieved.ctx) = 2
    /\ ~call.res.raised /\ call.res.fallback_used

\* C7 (as claimed): when retrieval returned a passage and the gate discarded
\* all of them, the fallback answer begins with the insufficient-context
\* notice; when retrieval returned no passage, no notice is prepended.
C7_NoticeWhenGateDiscardsAll ==
    (call.done /\ ~call.res.raised /\ call.res.fallback_used)
        => /\ ( /\ Retrieved.ctx # <<>>
                /\ call.res.kept = <<>>
                /\ (call.force_general \/ (call.require_keywords # <<>> /\ NoKeywordAnywhere)) )
              => StartsWith(call.res.answer, FALLBACK_NOTICE)
           /\ Retrieved.ctx = <<>> => ~StartsWith(call.res.answer, FALLBACK_NOTICE)

\* C8: a grounded success (used_rag = true) has fallback_used = false, made no
\* general completion call, ends with the strict call at temperature 0, and
\* carries the full source list of the retrieval, also when the gate kept
\* fewer passages than were retrieved.
C8_GroundedSuccessKeepsAllSources ==
    (call.done /\ call.res.used_rag)
        => /\ ~call.res.raised
           /\ call.res.fallback_used = FALSE
           /\ ~MadeChat("general")
           /\ call.res.calls[Len(call.res.calls)].prompt = "strict"
           /\ call.res.calls[Len(call.res.calls)].temperature = 0
           /\ call.res.sources = Retrieved.srcs

C8_Witness ==
    /\ call.done /\ call.res.used_rag
    /\ call.res.kept # <<>>
    /\ Len(call.res.kept) < Len(Retrieved.ctx)
    /\ Len(call.res.sources) = 2

\* C9: when passages survive the gate, a strict-pass output that is exactly
\* the sentinel and one that contains a refusal phrase have the same outcome:
\* the general completion is called and, unless it fails, the result has
\* used_rag = false, fallback_used = true, the notice prefix and the source
\* list of the retrieval; the whole outcome equals the sentinel's.
C9_SentinelAndRefusalFallBackAlike ==
    (call.done /\ call.res.kept # <<>> /\ call.env.rag.ok
        /\ (RagText = NOT_FOUND_TOKEN \/ RagHasRefusalPhrase))
        => /\ MadeChat("general")
           /\ call.res = SentinelOutcome
           /\ ~call.res.raised =>
                 /\ call.res.used_rag = FALSE
                 /\ call.res.fallback_used
                 /\ call.res.answer = FALLBACK_NOTICE \o GenText
                 /\ call.res.sources = Retrieved.srcs

C9_Witness ==
    /\ call.done /\ call.res.kept # <<>> /\ call.env.rag.ok
    /\ RagText # NOT_FOUND_TOKEN
    /\ Contains(<<"does not contain">>, Lower(RagText))
    /\ ~Contains(<<"does not contain">>, RagText)
    /\ call.res.fallback_used

\* C10 (as claimed): when passages survive the gate, every strict-pass output
\* that neither equals the sentinel nor contains a refusal phrase is returned
\* as a grounded success without a general call.
C10_EveryOtherOutputIsGrounded ==
    (call.done /\ call.res.kept # <<>> /\ call.env.rag.ok
        /\ RagText # NOT_FOUND_TOKEN /\ ~RagHasRefusalPhrase)
        => /\ ~call.res.raised
           /\ call.res.used_rag /\ call.res.fallback_used = FALSE
           /\ call.res.answer = RagText
           /\ ~MadeChat("general")

\* C10 (amended): the same for every non-empty output; an empty output (no
\* content, or whitespace only) is a miss and goes to the general completion
\* with used_rag = false.
C10_EveryOtherNonEmptyOutputIsGrounded ==
    (call.done /\ call.res.kept # <<>> /\ call.env.rag.ok
        /\ RagText # NOT_FOUND_TOKEN /\ ~RagHasRefusalPhrase)
        => IF RagText # <<>>
           THEN /\ ~call.res.raised
                /\ call.res.used_rag /\ call.res.fallback_used = FALSE
                /\ call.res.answer = RagText
                /\ ~MadeChat("general")
           ELSE /\ MadeChat("general")
                /\ call.res.used_rag = FALSE

C10_Witness ==
    /\ call.done /\ call.res.kept # <<>> /\ call.env.rag.ok
    /\ Contains(NOT_FOUND_TOKEN, RagText) /\ RagText # NOT_FOUND_TOKEN
    /\ call.res.used_rag

\* ------------------------------------- further claims on the answer engine
\* how many recorded outside calls carry the given prompt
CountChat(prompt) ==
    Cardinality({i \in DOMAIN call.res.calls : call.res.calls[i].prompt = prompt})

\* C11: with force_general set, every retrieved passage is discarded whatever
\* was retrieved and whatever require_keywords are: no strict (grounded)
\* completion call is made, the general call is made, and a returned result
\* has used_rag = false and fallback_used = true.
C11_ForceGeneralDiscardsEverything ==
    (call.done /\ call.force_general)
        => /\ call.res.kept = <<>>
           /\ ~MadeChat("strict")
           /\ MadeChat("general")
           /\ ~call.res.raised => (~call.res.used_rag /\ call.res.fallback_used)

C11_Witness ==
    /\ call.done /\ call.force_general /\ ~call.res.raised
    /\ call.require_keywords # <<>> /\ ~NoKeywordAnywhere
    /\ Retrieved.ctx # <<>>
    /\ call.res.fallback_used

\* C12: every result returned from the fallback path has used_rag = false,
\* fallback_used = true and as sources the list retrieve_context returned,
\* whatever the gate did to the passages.
C12_FallbackKeepsRetrievedSources ==
    (call.done /\ ~call.res.raised /\ MadeChat("general"))
        => /\ ~call.res.used_rag
           /\ call.res.fallback_used
           /\ call.res.sources = Retrieved.srcs

C12_Witness ==
    /\ call.done /\ ~call.res.raised /\ call.res.fallback_used
    /\ ~call.force_general
    /\ Len(Retrieved.srcs) = 2 /\ call.res.kept = <<>>
    /\ call.res.sources = Retrieved.srcs

\* C13: when the index raises, retrieve_context returns two empty lists and
\* raises nothing; answer_query makes no strict call, makes the general call,
\* raises only if that call fails, and otherwise returns used_rag = false,
\* fallback_used = true and no sources.
C13_IndexFailureDegradesToFallback ==
    (call.done /\ call.env.index.raises)
        => /\ Retrieved = [ctx |-> <<>>, srcs |-> <<>>]
           /\ ~MadeChat("strict")
           /\ MadeChat("general")
           /\ call.res.raised <=> ~call.env.gen.ok
           /\ ~call.res.raised
                 => /\ ~call.res.used_rag
                    /\ call.res.fallback_used
                    /\ call.res.sources = <<>>

C13_Witness ==
    /\ call.done /\ call.env.index.raises /\ ~call.res.raised
    /\ call.res.fallback_used /\ call.res.sources = <<>>
    /\ call.res.answer = <<"General", " ", "advice.">>

\* C14: a failed request of the strict pass or of the general pass makes the
\* whole call raise: no result is returned, the failed request is made once
\* only, and after a failed strict pass no general request is made.
C14_CompletionFailureFailsTheCall ==
    call.done
        => /\ (MadeChat("strict") /\ ~call.env.rag.ok)
                 => (call.res.raised /\ ~MadeChat("general") /\ CountChat("strict") = 1)
           /\ (MadeChat("general") /\ ~call.env.gen.ok)
                 => (call.res.raised /\ CountChat("general") = 1)
           /\ call.res.raised
                 => \/ MadeChat("strict") /\ ~call.env.rag.ok
                    \/ MadeChat("general") /\ ~call.env.gen.ok

C14_Witness ==
    /\ call.done /\ call.res.raised
    /\ MadeChat("strict") /\ ~call.env.rag.ok
    /\ call.env.gen.ok
    /\ Len(call.res.calls) = 3


\* ---------------------------------------------------- claims on the flows
\* the documented order of each flow's states
RemitOrder == <<ASK_COUNTRY, ASK_METHOD, ASK_AMOUNT, SHOW_OPTIONS, OFFER_BUDGET, DONE>>

FinOrder == <<ASK_GOAL, ASK_HORIZ, ASK_INCOME, ASK_BANKPATH, SHOW_TIPS, DONE>>

ScamOrder == <<ASK_SCENARIO, ASK_CHANNEL, ASK_REQUESTS, SUMMARIZE_RISK, PROVIDE_STEPS, DONE>>

OrderOf(f) ==
    CASE f = "remittance" -> RemitOrder
      [] f = "financial" -> FinOrder
      [] OTHER -> ScamOrder

\* the place of label in the order of flow f (0 when it is no state of f)
Pos(f, label) ==
    IF \E i \in DOMAIN OrderOf(f) : OrderOf(f)[i] = label
    THEN CHOOSE i \in DOMAIN OrderOf(f) : OrderOf(f)[i] = label
    ELSE 0

\* the states that check their input before storing it
ValidatingStates ==
    {ASK_COUNTRY, ASK_METHOD, ASK_GOAL, ASK_HORIZ, ASK_SCENARIO, ASK_CHANNEL}

\* the states whose step goes on into the following answer state
ChainingStates == {ASK_AMOUNT, ASK_BANKPATH, ASK_REQUESTS}

HasKeyOf(table, text) == \E i \in DOMAIN table : Contains(table[i][1], Lower(text))

\* the input is one the state `label` accepts
ValidInput(label, text) ==
    CASE label \in {ASK_COUNTRY, ASK_GOAL, ASK_HORIZ, ASK_SCENARIO} -> Strip(text) # <<>>
      [] label = ASK_METHOD -> HasKeyOf(METHOD_MAP, text)
      [] label = ASK_CHANNEL -> HasKeyOf(CHANNEL_MAP, text)
      [] OTHER -> TRUE

\* how many states of the order the last step moved forward
Moved == Pos(last.flow, state.flow_state) - Pos(last.flow, last.from)

AllSlots ==
    {"country", "method", "amount", "goal", "horizon", "income", "bank_path_answer",
     "bank_path_sources", "scam_scenario", "scam_channel", "scam_requests"}

\* the last operation was a step that returned, refused its input and left
\* the flow in the state it found
Rejected ==
    /\ last.op = "step" /\ ~out.raised /\ ~out.done
    /\ state.flow_state = last.from

\* C2 (as claimed): a flow step in which answer_query raises leaves the session
\* state (flow marker, flow_state, every slot) as it was before the step.
C2_FailedStepLeavesStateUnchanged ==
    [][(last'.op = "step" /\ out'.raised) => state' = state]_vars

\* C3 (as claimed): a returning step with valid input moves flow_state to
\* exactly the next state of the documented order.
C3_StepMovesToNextState ==
    (last.op = "step" /\ ~out.raised /\ ValidInput(last.from, last.input)) => Moved = 1

\* C3 (amended): a returning step with valid input moves flow_state forward by
\* exactly one state, except from ask_amount, ask_bankpath and ask_requests,
\* whose step runs the following answer state too and ends exactly two states
\* forward; a step whose answer_query call raises ends at most one state
\* forward.
C3_StepMovesOneOrChainsTwo ==
    (last.op = "step" /\ ValidInput(last.from, last.input))
        => IF out.raised THEN Moved \in {0, 1}
           ELSE IF last.from \in ChainingStates THEN Moved = 2
           ELSE Moved = 1

C3_Witness ==
    /\ last.op = "step" /\ ~out.raised
    /\ last.from = ASK_AMOUNT /\ state.flow_state = OFFER_BUDGET
    /\ state.method = Some(<<"bank", " ", "transfer">>)
    /\ state.amount = Some(<<"1200">>)

\* C4 (as claimed): from any non-terminal state a step whose input is empty or
\* whitespace only leaves the session state unchanged and calls nothing.
C4_EmptyInputChangesNothing ==
    [][(last'.op = "step" /\ Strip(last'.input) = <<>>)
          => (state' = state /\ ~out'.raised /\ out'.calls = <<>>)]_vars

\* C4 (amended): in the states that validate their input (ask_country,
\* ask_method, ask_goal, ask_horizon, ask_scenario, ask_channel) a step whose
\* input is empty or whitespace only leaves the session state unchanged,
\* makes no outside call and is not done; in every other state the empty input
\* is accepted and the step leaves that state unless answer_query raises.
C4_EmptyInputRejectedWhereValidated ==
    [][(last'.op = "step" /\ Strip(last'.input) = <<>>)
          => IF state.flow_state \in ValidatingStates
             THEN /\ state' = state
                  /\ ~out'.raised /\ out'.calls = <<>>
                  /\ ~out'.used_backend /\ ~out'.done
             ELSE state'.flow_state # state.flow_state \/ out'.raised]_vars

C4_Witness ==
    /\ last.op = "step" /\ last.input = <<" ">>
    /\ last.from = ASK_CHANNEL /\ state.flow_state = ASK_CHANNEL
    /\ state.scam_channel = None
    /\ out.calls = <<>>

\* C5 (as claimed): a step that rejects its input replies with the prompt text
\* emitted when the state was entered.
C5_ReaskRepeatsEntryPrompt == Rejected => out.text = last.entered

\* C5 (amended): a step that rejects its input replies with the fixed re-ask
\* text of that state, the same for every rejected input, and that text is
\* not the prompt emitted when the state was entered.
C5_ReaskIsFixedAndNotEntryPrompt ==
    Rejected
        => /\ out.text # last.entered
           /\ last.entered # <<>>
           /\ out.text = CASE last.from = ASK_COUNTRY -> RemitCountryReask
                           [] last.from = ASK_METHOD -> RemitMethodReask
                           [] last.from = ASK_GOAL -> FinGoalReask
                           [] last.from = ASK_HORIZ -> FinHorizonReask
                           [] last.from = ASK_SCENARIO -> ScamScenarioReask
                           [] last.from = ASK_CHANNEL -> ScamChannelReask

C5_Witness ==
    /\ Rejected
    /\ last.from = ASK_COUNTRY /\ last.input = <<" ", "\n">>
    /\ last.entered = RemitStartPrompt

\* the canonical value of the first key of the method table, in table order,
\* that the lowercased text contains
ValueOfFirstMethodKey(text) ==
    LET hit(i) == Contains(METHOD_MAP[i][1], Lower(text))
        first == CHOOSE i \in DOMAIN METHOD_MAP : hit(i) /\ \A j \in 1..(i - 1) : ~hit(j)
    IN METHOD_MAP[first][2]

CanonicalMethods ==
    { <<"bank", " ", "transfer">>, <<"cash", " ", "pickup">>, <<"mobile", " ", "wallet">>,
      <<"PayLah">>, <<"PayNow">> }

\* C18: at ask_method an input is accepted exactly when its lowercased text
\* contains a key of the method table; then method becomes the canonical value
\* of the first matching key in table order and flow_state becomes ask_amount;
\* otherwise flow_state and method are unchanged. method is always unset or
\* one of the five canonical values.
C18_MethodIsFirstMatchingKey ==
    /\ [][(last'.op = "step" /\ state.flow = "remittance" /\ state.flow_state = ASK_METHOD)
            => IF HasKeyOf(METHOD_MAP, last'.input)
               THEN /\ state'.method = Some(ValueOfFirstMethodKey(last'.input))
                    /\ state'.flow_state = ASK_AMOUNT
               ELSE /\ state'.method = state.method
                    /\ state'.flow_state = ASK_METHOD]_vars
    /\ [](state.method = None \/ \E m \in CanonicalMethods : state.method = Some(m))

C18_Witness ==
    /\ last.op = "step" /\ last.from = ASK_METHOD
    /\ last.input = <<"I'll use my", " ", "Bank">>
    /\ state.method = Some(<<"bank", " ", "transfer">>)
    /\ state.flow_state = ASK_AMOUNT

\* the slots a flow collects
SlotsOf(f) ==
    CASE f = "remittance" -> {"country", "method", "amount"}
      [] f = "financial" ->
            {"goal", "horizon", "income", "bank_path_answer", "bank_path_sources"}
      [] OTHER -> {"scam_scenario", "scam_channel", "scam_requests"}

\* C6 (as claimed): a start of flow A made while a slot of another flow holds
\* a value leaves the flow marker at A, flow_state at A's first state, and no
\* slot of any flow holding a value.
C6_StartLeavesNoSlotValue ==
    [][(/\ last'.op = "start"
        /\ \E k \in AllSlots \ SlotsOf(last'.flow) : state[k] # None)
          => /\ state'.flow = last'.flow
             /\ state'.flow_state = OrderOf(last'.flow)[1]
             /\ \A k \in AllSlots : state'[k] = None]_vars

\* ----------------------------------------------------- claims on a session
\* how many of the outside calls of the last operation are of the given kind
CallsOf(kind) == Cardinality({i \in DOMAIN out.calls : out.calls[i].op = kind})

\* the last operation ran the ask_bankpath step of the financial flow on an
\* affirmative reply
BankPathYesTurn ==
    /\ last.op = "run" /\ last.routed = "step"
    /\ last.flow = "financial" /\ last.from = ASK_BANKPATH
    /\ Lower(last.input) \in { <<"yes">>, <<"y">>, <<"yeah">>, <<"ok">>, <<"okay">>, <<"sure">> }

\* C15 (as claimed): every user turn performs at most one retrieval call and
\* at most two completion calls.
C15_TurnMakesOneRetrievalTwoCompletions == CallsOf("retrieve") <= 1 /\ CallsOf("chat") <= 2

\* C15 (amended): every turn performs at most one retrieval call and at most
\* two completion calls, except the ask_bankpath step of the financial flow
\* answered affirmatively, which calls answer_query twice and performs at
\* most two retrieval calls and four completion calls; a turn that only
\* starts a flow, schedules a call or clears the history performs none.
C15_TurnCallsBoundedButBankPath ==
    /\ IF BankPathYesTurn
       THEN CallsOf("retrieve") <= 2 /\ CallsOf("chat") <= 4
       ELSE CallsOf("retrieve") <= 1 /\ CallsOf("chat") <= 2
    /\ last.op # "run" => out.calls = <<>>

C15_Witness ==
    /\ BankPathYesTurn /\ ~out.raised
    /\ CallsOf("retrieve") = 2 /\ CallsOf("chat") = 4
    /\ state.flow = NoFlow

MentionsAny(words, text) == \E i \in DOMAIN text : Lower(text)[i] \in words

\* C16: a text submitted with no flow active starts the remittance flow when
\* it matches the remittance intent, else the financial flow when it matches
\* the financial intent, else the scam flow when it matches the scam intent;
\* a text matching none is scheduled as a plain query, and the plain call is
\* made with no require_keywords.
C16_IntentOrderRemittanceFinancialScam ==
    /\ (last.op = "submit" /\ last.was = NoFlow)
          => IF MentionsAny(REMITTANCE_INTENT_PATTERNS, last.input)
             THEN last.routed = "start" /\ state.flow = "remittance"
             ELSE IF MentionsAny(FIN_INTENT_PATTERNS, last.input)
             THEN last.routed = "start" /\ state.flow = "financial"
             ELSE IF MentionsAny(SCAM_INTENT_PATTERNS, last.input)
             THEN last.routed = "start" /\ state.flow = "scam"
             ELSE /\ last.routed = "plain" /\ state.flow = NoFlow
                  /\ app.run_backend /\ app.pending_query = last.input
    /\ (last.op = "run" /\ last.routed = "plain")
          => /\ last.keywords = <<>>
             /\ last.input # <<>>
             /\ ~MentionsAny(REMITTANCE_INTENT_PATTERNS \cup FIN_INTENT_PATTERNS
                               \cup SCAM_INTENT_PATTERNS, last.input)

C16_Witness ==
    /\ last.op = "submit" /\ last.was = NoFlow
    /\ last.input = <<"save", " ", "a", " ", "deposit">>
    /\ state.flow = "financial" /\ state.flow_state = ASK_GOAL

\* C17: with no flow active, a text that matches the remittance intent starts
\* the remittance flow in that same turn: flow = remittance, flow_state =
\* ask_country, the reply is the opening prompt that asks for the country,
\* and nothing is called or scheduled.
C17_RemittanceIntentStartsFlow ==
    (/\ last.op \in {"submit", "button"} /\ last.was = NoFlow
     /\ MentionsAny(REMITTANCE_INTENT_PATTERNS, last.input))
        => /\ state.flow = "remittance"
           /\ state.flow_state = ASK_COUNTRY
           /\ out.text = RemitStartPrompt
           /\ out.calls = <<>> /\ ~out.used_backend /\ ~out.raised
           /\ ~app.run_backend /\ app.pending_query = <<>>
           /\ app.messages[Len(app.messages)] = Msg("assistant", "Flow: Remittance")

C17_Witness ==
    /\ last.op = "submit" /\ last.was = NoFlow
    /\ last.input = <<"I want to ", "send money", " overseas.">>
    /\ state.flow = "remittance" /\ state.flow_state = ASK_COUNTRY
    /\ state.country = None
    /\ out.text = RemitStartPrompt

\* C19: a flow step returns done = true exactly when it has set flow_state to
\* done and cleared the flow marker; the text submitted after such a step is
\* routed through the intent classifiers or to the plain call, never to the
\* finished flow.
C19_DoneClearsTheFlow ==
    /\ []((last.op = "run" /\ last.routed = "step" /\ ~out.raised)
            => /\ out.done <=> (last.left.flow_state = DONE /\ last.left.flow = NoFlow)
               /\ out.done => state.flow = NoFlow)
    /\ [][(last.op = "run" /\ last.routed = "step" /\ out.done /\ last'.op = "submit")
            => (last'.routed \in {"start", "plain"} /\ app'.pending_flow = NoFlow)]_vars

C19_Witness ==
    /\ last.op = "run" /\ last.routed = "step" /\ ~out.raised /\ out.done
    /\ last.flow = "remittance" /\ last.from = OFFER_BUDGET
    /\ last.left = [flow |-> NoFlow, flow_state |-> DONE]
    /\ state.flow = NoFlow /\ state.flow_state = NoLabel

\* C20: in every state of a session flow_state is a state of the flow the
\* flow marker names, and when the flow marker is None flow_state is None.
C20_LabelBelongsToFlow ==
    IF state.flow = NoFlow THEN state.flow_state = NoLabel
    ELSE /\ state.flow \in {"remittance", "financial", "scam"}
         /\ Pos(state.flow, state.flow_state) > 0

C20_Witness ==
    /\ last.op = "run" /\ out.raised
    /\ state.flow = "remittance" /\ state.flow_state = SHOW_OPTIONS
    /\ ~app.run_backend

\* --------------------------------------------------- index handle claims
\* C21: under any interleaving of concurrent sessions that call
\* retrieve_context, the document-index handle is constructed at most once per
\* process and every retrieval uses that one handle.
C21_IndexConstructedAtMostOnce ==
    /\ lc.built <= 1
    /\ Cardinality(lc.used) <= 1

\* --------------------------------------------- clamp and filter claims
RECURSIVE TotalLen(_)
TotalLen(chunks) ==
    IF chunks = <<>> THEN 0 ELSE Len(Head(chunks)) + TotalLen(Tail(chunks))

HasMarker(text) == \E i \in DOMAIN text : text[i] = TRUNCATED

\* the passages one after the other with the separator between them
SeparatedBy(chunks, text) ==
    LET start(i) == TotalLen(SubSeq(chunks, 1, i - 1)) + i
    IN /\ Len(text) = TotalLen(chunks) + (IF chunks = <<>> THEN 0 ELSE Len(chunks) - 1)
       /\ \A i \in DOMAIN chunks :
            /\ SubSeq(text, start(i), start(i) + Len(chunks[i]) - 1) = chunks[i]
            /\ i > 1 => text[start(i) - 1] = SEPARATOR

\* C22: clamping passages whose total length does not exceed the budget
\* yields exactly those passages, in order, joined by the separator, with no
\* truncation marker and none shortened or dropped; clamping the passages of
\* that output again gives the same output.
C22_UnderBudgetClampIsIdentity ==
    (pure.op \in {"clamp", "clamp_again"}
       /\ TotalLen(pure.chunks) <= pure.max_chars)
    => /\ pure.parts = pure.chunks
       /\ SeparatedBy(pure.chunks, pure.text)
       /\ ~HasMarker(pure.text)
       /\ pure.op = "clamp_again" => pure.text = pure.first

\* a second clamp of an under-budget output that held two passages or more,
\* the budget being exactly full
C22_Witness ==
    /\ pure.op = "clamp_again"
    /\ TotalLen(pure.chunks) = pure.max_chars
    /\ Len(pure.chunks) >= 2
    /\ pure.text = pure.first

\* a passage cut to its first k atoms and marked
Truncation(c, k) == SubSeq(c, 1, k) \o <<TRUNCATED>>

\* whether part is the passage c cut short and marked
IsTruncationOf(part, c) == \E k \in 1..(Len(c) - 1) : part = Truncation(c, k)

\* C23: for every passage sequence and budget, clamp includes a prefix of the
\* passages in ranked order, truncates at most one passage, which is the last
\* one included and the only one carrying the truncation marker, includes
\* nothing after it, and the passage characters included (separators and
\* marker excluded) never exceed the budget.
C23_ClampKeepsPrefixWithinBudget ==
    pure.op = "clamp"
    => LET n == Len(pure.parts)
       IN /\ n <= Len(pure.chunks)
          /\ \A i \in 1..n :
               /\ i < n => pure.parts[i] = pure.chunks[i]
               /\ \/ pure.parts[i] = pure.chunks[i]
                  \/ IsTruncationOf(pure.parts[i], pure.chunks[i])
               /\ HasMarker(pure.parts[i]) => i = n
          /\ TotalLen(pure.parts) - (IF n > 0 /\ HasMarker(pure.parts[n]) THEN 1 ELSE 0)
               <= pure.max_chars

\* a clamp that kept one passage whole, cut the second and left out the third
C23_Witness ==
    /\ pure.op = "clamp"
    /\ Len(pure.chunks) = 3
    /\ Len(pure.parts) = 2
    /\ pure.parts[1] = pure.chunks[1]
    /\ HasMarker(pure.parts[2])
    /\ Len(pure.chunks[3]) < Len(pure.chunks[2])

\* positions of the passages whose lowercased text contains a keyword
HitPositions(chunks, keys) ==
    { i \in DOMAIN chunks : \E k \in DOMAIN keys : Contains(keys[k], Lower(chunks[i])) }

\* the j-th smallest member of a set of positions
NthOf(S, j) == CHOOSE i \in S : Cardinality({m \in S : m < i}) = j - 1

\* C24: for a non-empty keyword set the keyword filter returns, in the
\* original order, exactly the passages whose lowercased text contains at
\* least one keyword, when at least one passage matches; when none matches it
\* returns the original sequence unfiltered; for an empty keyword set it
\* returns the input unchanged.
C24_FilterKeepsMatchesOrEverything ==
    pure.op = "filter"
    => LET hits == HitPositions(pure.chunks, pure.include_any)
       IN IF pure.include_any = <<>> \/ hits = {}
          THEN pure.result = pure.chunks
          ELSE /\ Len(pure.result) = Cardinality(hits)
               /\ \A j \in DOMAIN pure.result :
                    pure.result[j] = pure.chunks[NthOf(hits, j)]

\* a filter that kept two passages of three, one of them matched through
\* lower-casing
C24_Witness ==
    /\ pure.op = "filter"
    /\ pure.include_any # <<>>
    /\ Len(pure.chunks) = 3
    /\ Len(pure.result) = 2
    /\ pure.result[1] # pure.result[2]
    /\ \E j \in DOMAIN pure.result : Lower(pure.result[j]) # pure.result[j]

\* a filter with keywords that no passage contains
C24_WitnessNoMatch ==
    /\ pure.op = "filter"
    /\ pure.include_any # <<>>
    /\ pure.chunks # <<>>
    /\ HitPositions(pure.chunks, pure.include_any) = {}

\* ------------------------------------------------ answer_query: focus claims
\* the S-Pass / Employment-Pass terms
PassTerms == { <<"s", " ", "pass">>, <<"employment", " ", "pass">>, <<"ep">> }

MentionsPass(chunk) == \E t \in PassTerms : Contains(t, Lower(chunk))

\* the raw query matches the S-Pass / Employment-Pass terms
QueryAboutPasses == FocusTerms(call.user_raw) # <<>>

\* a call with no require_keywords and force_general false
PlainCall == call.done /\ call.require_keywords = <<>> /\ ~call.force_general

\* C25: in answer_query with no require_keywords and force_general false, if
\* the query matches the S-Pass / Employment-Pass terms every passage that
\* survives gating mentions one of the focus terms; if the query matches none
\* of them the surviving passages are exactly the retrieved ones.
C25_FocusKeepsOnlyMentioning ==
    PlainCall
    => IF QueryAboutPasses
       THEN \A i \in DOMAIN call.res.kept : MentionsPass(call.res.kept[i])
       ELSE call.res.kept = Retrieved.ctx

\* C25 as the code has it: when the query matches the terms and some retrieved
\* passage mentions one, the surviving passages are the mentioning ones in
\* their order; when no retrieved passage mentions one, or the query matches
\* none of the terms, every retrieved passage survives.
C25_FocusKeepsMentioningOrAll ==
    PlainCall
    => IF QueryAboutPasses
          /\ \E i \in DOMAIN Retrieved.ctx : MentionsPass(Retrieved.ctx[i])
       THEN call.res.kept = SelectSeq(Retrieved.ctx, MentionsPass)
       ELSE call.res.kept = Retrieved.ctx

\* a pass query whose retrieval mentions no pass term, answered from the
\* retrieved passages all the same
C25_Witness ==
    /\ PlainCall
    /\ QueryAboutPasses
    /\ Retrieved.ctx # <<>>
    /\ \A i \in DOMAIN Retrieved.ctx : ~MentionsPass(Retrieved.ctx[i])
    /\ call.res.kept = Retrieved.ctx
    /\ MadeChat("strict")

\* a pass query whose retrieval is narrowed to the mentioning passage
C25_WitnessNarrowed ==
    /\ PlainCall
    /\ QueryAboutPasses
    /\ Len(Retrieved.ctx) = 2
    /\ Len(call.res.kept) = 1

\* C26: when require_keywords is non-empty and no retrieved passage contains
\* any of them, a call that returns has used_rag = false and a non-empty
\* answer text, whatever the completion service replied.
C26_GatedFallbackAnswerNonEmpty ==
    (call.done /\ ~call.res.raised
       /\ call.require_keywords # <<>> /\ NoKeywordAnywhere)
    => /\ ~call.res.used_rag
       /\ call.res.answer # <<>>

\* ------------------------------------------------------ scam flow claims
\* the current state ends a run of flow f in which no step failed
RunDone(f) ==
    /\ last.op = "step" /\ last.flow = f
    /\ state.flow_state = DONE
    /\ ~last.run.failed

\* C27: over one complete run of the scam flow from start to done without
\* failures exactly one answer_query call is made, at summarize_risk and with
\* the non-empty anti-scam require_keywords; the provide_steps step makes no
\* answer_query call and returns static guidance with used_backend = false
\* and no sources.
C27_ScamRunAsksOnceThenStaticSteps ==
    /\ RunDone("scam")
       => /\ Len(last.run.asked) = 1
          /\ last.run.asked[1].to = PROVIDE_STEPS
          /\ last.run.asked[1].from = ASK_REQUESTS
          /\ last.run.asked[1].require_keywords = SCAM_KEYS
          /\ SCAM_KEYS # <<>>
          /\ \E i \in DOMAIN SCAM_KEYS : SCAM_KEYS[i] = <<"scam">>
    /\ (last.op = "step" /\ last.flow = "scam" /\ last.from = PROVIDE_STEPS)
       => /\ out.calls = <<>>
          /\ ~out.raised
          /\ ~out.used_backend
          /\ ~out.used_rag
          /\ out.sources = <<>>
          /\ out.done
          /\ out.text \in {ScamTipsText, ScamNoTipsText}
    /\ (last.op = "step" /\ last.flow = "scam" /\ out.raised)
       => state.flow_state = SUMMARIZE_RISK

\* a scam run that reached done on a yes, after its one call
C27_Witness ==
    /\ RunDone("scam")
    /\ last.from = PROVIDE_STEPS
    /\ out.text = ScamTipsText
    /\ Len(last.run.asked) = 1
    /\ Truthy(state.scam_requests)

\* ------------------------------------------------ conversation history claims
HasLoader(messages) == \E i \in DOMAIN messages : messages[i] = Loader

\* messages' keeps every entry of messages, the last one excepted when it is
\* a loader
KeepsAllButLoader(old, new) ==
    /\ Len(new) >= Len(old)
    /\ \A i \in DOMAIN old : (new[i] = old[i] \/ (i = Len(old) /\ old[i] = Loader))

\* C28: every "Thinking" placeholder appended to the history is replaced by
\* the result of its own turn before the next user turn is accepted, so that
\* at every turn boundary, also after a turn whose answer_query call failed,
\* the history holds no placeholder; no other entry is ever overwritten.
C28_NoPlaceholderAtTurnBoundary ==
    /\ [](~app.run_backend => ~HasLoader(app.messages))
    /\ [][last'.op # "clear" => KeepsAllButLoader(app.messages, app'.messages)]_vars

\* C29: while a flow is active every submitted text is handed to the step
\* function of exactly that flow and the intent classifiers are not
\* consulted, even when the text matches the intent of another flow; the
\* flow named at submission is the flow whose step runs.
C29_ActiveFlowConsumesTheTurn ==
    /\ [][(last'.op = "submit" /\ state.flow # NoFlow)
            => /\ last'.routed = "step"
               /\ last'.flow = state.flow
               /\ app'.pending_flow = state.flow
               /\ app'.flow_pending_input = last'.input
               /\ app'.pending_query = <<>>
               /\ state' = state]_vars
    /\ [][(last'.op = "run" /\ last'.routed = "step")
            => /\ last.op = "submit" /\ last.routed = "step"
               /\ last'.flow = last.flow
               /\ last'.flow = state.flow
               /\ last'.input = last.input
               /\ state'.flow \in {state.flow, NoFlow}]_vars

\* the remittance step ran on a text that states a financial intent
C29_Witness ==
    /\ last.op = "run" /\ last.routed = "step"
    /\ last.flow = "remittance" /\ last.was = "remittance"
    /\ IntentOf(last.input) = "financial"

\* ------------------------------------------------- financial flow claims
\* the heading of the bank-account-setup block
BankBlockHeading == FinBankBlock(<<>>)[1]

HasBankBlock(text) == \E i \in DOMAIN text : text[i] = BankBlockHeading

\* C30: in any run of the financial flow the final tips reply contains the
\* bank-account-setup block, and its sources the bank-path sources, only if
\* the user answered affirmatively at ask_bankpath in that same run: start
\* resets everything an earlier financial run of the session collected.
\* Checked on the runs whose ask_bankpath step was answered otherwise and
\* went on to the tips in the same turn.
C30_BankBlockOnlyAfterYes ==
    (last.op = "step" /\ last.flow = "financial" /\ last.from = ASK_BANKPATH
       /\ ~SaysYes(Strip(last.input)) /\ out.done)
    => /\ ~HasBankBlock(out.text)
       /\ ~Truthy(state.bank_path_answer)
       /\ ~Truthy(state.bank_path_sources)

\* ------------------------------------------- optional numeric state claims
\* the reply as the step reads it
Typed == Strip(last.input)

\* positions of the numeric tokens of the reply once commas are removed
NumberPositions == { i \in DOMAIN Typed : DropCommasAtom(Typed[i]) \in NumberAtoms }

\* the slot the optional numeric state of the flow fills
NumericSlot == IF last.flow = "remittance" THEN state.amount ELSE state.income

\* C31: in the optional numeric states (remittance ask_amount, financial
\* ask_income) the step always advances; with input "skip" in any letter
\* case, empty input or input without a numeric token the slot stays unset,
\* otherwise the slot becomes the first numeric token of the input after
\* commas are removed.
C31_OptionalNumberStepAdvances ==
    (last.op = "step" /\ last.from \in {ASK_AMOUNT, ASK_INCOME})
    => /\ state.flow_state # last.from
       /\ Pos(last.flow, state.flow_state) > Pos(last.flow, last.from)
       /\ IF Typed = <<>> \/ Lower(Typed) = <<"skip">> \/ NumberPositions = {}
          THEN NumericSlot = None
          ELSE NumericSlot
                 = Some(<<DropCommasAtom(
                            Typed[CHOOSE i \in NumberPositions :
                                    \A j \in NumberPositions : i <= j])>>)

\* a reply with two amounts, the second written with a comma
C31_Witness ==
    /\ last.op = "step" /\ last.from = ASK_INCOME
    /\ Cardinality(NumberPositions) = 2
    /\ state.income = Some(<<"200">>)
    /\ state.flow_state = ASK_BANKPATH

\* the amount written with a comma, stored without it
C31_WitnessComma ==
    /\ last.op = "step" /\ last.from = ASK_AMOUNT
    /\ state.amount = Some(<<"1200">>)

\* ------------------------------------------- answer_query: call order claims
\* the outside calls of the recorded call, in order
Outside == SelectSeq(call.res.calls, LAMBDA c : c.op # "answer_query")

\* positions in Outside of the calls of one kind
Where(op, prompt) ==
    { i \in DOMAIN Outside : Outside[i].op = op /\ Outside[i].prompt = prompt }

GroundedSuccess == ~call.res.raised /\ call.res.used_rag

\* the strict pass was attempted and the completion service failed
StrictFailed == Where("chat", "strict") # {} /\ ~call.env.rag.ok

\* retrieval first and once, the strict pass at temperature 0 exactly when a
\* passage survived the gate, the general pass at temperature 0.2 after it,
\* two completions at most
OrderedCalls ==
    /\ Outside # <<>>
    /\ Where("retrieve", "-") = {1}
    /\ \A i \in DOMAIN Outside : i > 1 => Outside[i].op = "chat"
    /\ Cardinality(Where("chat", "strict")) = (IF call.res.kept # <<>> THEN 1 ELSE 0)
    /\ Cardinality(Where("chat", "general")) <= 1
    /\ Len(Outside) <= 3
    /\ \A i \in Where("chat", "strict") : Outside[i].temperature = 0 /\ i = 2
    /\ \A i \in Where("chat", "general") :
          /\ Outside[i].temperature = 2
          /\ i = Len(Outside)
          /\ \A j \in Where("chat", "strict") : j < i

\* C32: each answer_query call performs, in this order, exactly one
\* retrieval, then a grounded completion at temperature 0 if and only if a
\* passage survives gating, then a fallback completion at temperature 0.2 if
\* and only if no grounded success was obtained; the fallback never precedes
\* the grounded attempt and no call makes more than two completions.
C32_RetrieveThenStrictThenGeneral ==
    call.done
    => /\ OrderedCalls
       /\ (Where("chat", "general") # {}) <=> ~GroundedSuccess

\* C32 as the code has it: the fallback completion is made if and only if no
\* grounded success was obtained and the grounded completion did not fail; a
\* failed grounded completion ends the call with no fallback completion.
C32_GeneralUnlessStrictFailed ==
    call.done
    => /\ OrderedCalls
       /\ (Where("chat", "general") # {}) <=> (~GroundedSuccess /\ ~StrictFailed)
       /\ StrictFailed => call.res.raised

\* a call that made the strict pass, got the sentinel and went on to the
\* general pass
C32_Witness ==
    /\ call.done /\ ~call.res.raised
    /\ Len(Outside) = 3
    /\ Strip(RagText) = NOT_FOUND_TOKEN
    /\ call.res.fallback_used

\* a call whose strict pass failed
C32_WitnessStrictFailed ==
    /\ call.done /\ StrictFailed /\ call.res.raised
    /\ Where("chat", "general") = {}

\* C33: in every result answer_query returns exactly one of used_rag and
\* fallback_used is true.
C33_ExactlyOneOfGroundedAndFallback ==
    (call.done /\ ~call.res.raised)
    => (call.res.used_rag <=> ~call.res.fallback_used)

\* a fallback result returned although passages had survived the gate
C33_Witness ==
    /\ call.done /\ ~call.res.raised
    /\ call.res.kept # <<>>
    /\ call.res.fallback_used /\ ~call.res.used_rag
    /\ RagHasRefusalPhrase

\* ------------------------------------------------- grounded label claims
\* entries of the step's call log: answer_query calls, and general passes
AsksInStep == Cardinality({i \in DOMAIN out.calls : out.calls[i].op = "answer_query"})

GeneralPassesInStep ==
    Cardinality({i \in DOMAIN out.calls : out.calls[i].prompt = "general"})

\* a call that returns made the general pass exactly when it fell back, so a
\* step whose calls all returned had a grounded one exactly when it made
\* more calls than general passes
SomeCallGrounded == AsksInStep > GeneralPassesInStep

\* C34: a flow step reports used_rag = true only if at least one
\* answer_query call made for that reply returned used_rag = true, so the
\* grounded label is never shown for a reply built only from fallback answers.
C34_GroundedOnlyIfSomeCallGrounded ==
    (last.op = "step" /\ ~out.raised /\ out.used_rag) => SomeCallGrounded

\* ------------------------------------------------------ termination claims
\* C35: with answer_query never failing and every input accepted, each of the
\* three flows reaches done and clears the flow marker after at most 4 steps
\* following start; no step moves flow_state back to an earlier state of the
\* flow's order.
C35_DoneWithinFourSteps ==
    /\ []((last.op \in {"start", "step"} /\ ~last.run.failed)
            => /\ last.run.steps <= 4
               /\ last.run.steps = 4 <=> state.flow_state = DONE
               /\ state.flow_state = DONE <=> state.flow = NoFlow)
    /\ [][last'.op = "step"
            => Pos(last'.flow, state'.flow_state) >= Pos(last'.flow, state.flow_state)]_vars

\* each flow at done after four steps
C35_Witness ==
    /\ RunDone(last.flow)
    /\ last.run.steps = 4
    /\ last.flow = "financial"
    /\ state.flow = NoFlow

C35_WitnessRemittance == RunDone("remittance") /\ last.run.steps = 4

C35_WitnessScam == RunDone("scam") /\ last.run.steps = 4

\* ---------------------------------------------------------------- C36
\* the step before this state raised inside answer_query
AfterFailure == last.op = "step" /\ out.raised

\* require_keywords of the answer_query call each calling state makes
KeysOfState(label) ==
    CASE label \in {SHOW_OPTIONS, OFFER_BUDGET} -> REMIT_DOC_KEYS
      [] label = ASK_BANKPATH -> FIN_DOC_KEYS
      [] label = SHOW_TIPS -> PLAN_KEYS \o FIN_DOC_KEYS
      [] OTHER -> SCAM_KEYS

\* the state that follows each calling state in its flow
Following(label) ==
    CASE label = SHOW_OPTIONS -> OFFER_BUDGET
      [] label = ASK_BANKPATH -> SHOW_TIPS
      [] label = SUMMARIZE_RISK -> PROVIDE_STEPS
      [] OTHER -> DONE

\* the first outside call of the step that ends in the primed state is the
\* answer_query call of the state `label`
FirstCallIsOf(label) ==
    /\ out'.calls # <<>>
    /\ out'.calls[1].op = "answer_query"
    /\ out'.calls[1].require_keywords = KeysOfState(label)

SlotsKept(f) ==
    \A k \in SlotsOf(f) \ {"bank_path_answer", "bank_path_sources"} : state'[k] = state[k]

\* C36 (as claimed): a step that fails inside answer_query leaves the flow
\* active; when it leaves it in show_options, summarize_risk, show_tips or
\* ask_bank_path, the next step, whatever its text, makes that state's
\* answer_query call first, keeps every collected slot, and when it returns
\* the flow is in the following state (from ask_bank_path, in show_tips or,
\* the show_tips call having returned in the same turn, done).
C36_RetryReissuesWhateverTheText ==
    /\ [](AfterFailure => state.flow = last.flow)
    /\ [][(/\ AfterFailure /\ last'.op = "step"
           /\ state.flow_state \in {SHOW_OPTIONS, SUMMARIZE_RISK, SHOW_TIPS, ASK_BANKPATH})
            => /\ FirstCallIsOf(state.flow_state)
               /\ SlotsKept(state.flow)
               /\ ~out'.raised
                    => state'.flow_state \in
                         {Following(state.flow_state)}
                           \cup (IF state.flow_state = ASK_BANKPATH THEN {DONE} ELSE {})]_vars

\* C36 (amended): a step that fails inside answer_query leaves the flow active
\* in the state whose call failed, one of show_options, offer_budget,
\* ask_bank_path, show_tips and summarize_risk, with every collected slot
\* kept by the next step.  From show_options, summarize_risk and show_tips the
\* next step makes that state's call first whatever its text and, when it
\* returns, the flow is in the following state.  From ask_bank_path and
\* offer_budget the next step reads its text as a new answer to the yes/no
\* question: an affirmative makes the state's call again, any other text skips
\* it (ask_bank_path then makes the show_tips call, offer_budget makes none);
\* a step from either of the two that returns has ended the flow.
C36_RetryReissuesOrReadsTheAnswer ==
    /\ [](AfterFailure
            => /\ state.flow = last.flow
               /\ state.flow_state \in {SHOW_OPTIONS, OFFER_BUDGET, SUMMARIZE_RISK,
                                        SHOW_TIPS, ASK_BANKPATH})
    /\ [][(AfterFailure /\ last'.op = "step")
            => /\ SlotsKept(state.flow)
               /\ state.flow_state \in {SHOW_OPTIONS, SUMMARIZE_RISK, SHOW_TIPS}
                    => /\ FirstCallIsOf(state.flow_state)
                       /\ ~out'.raised => state'.flow_state = Following(state.flow_state)
               /\ state.flow_state = ASK_BANKPATH
                    => /\ FirstCallIsOf(IF SaysYes(Strip(last'.input)) THEN ASK_BANKPATH
                                        ELSE SHOW_TIPS)
                       /\ ~out'.raised => (state'.flow_state = DONE /\ state'.flow = NoFlow)
               /\ state.flow_state = OFFER_BUDGET
                    => /\ IF SaysYes(Strip(last'.input)) THEN FirstCallIsOf(OFFER_BUDGET)
                          ELSE out'.calls = <<>>
                       /\ ~out'.raised => (state'.flow_state = DONE /\ state'.flow = NoFlow)]_vars

\* a bank-path call failed, the next turn said no, and the step made the
\* show_tips call and ended the flow
C36_Witness ==
    /\ last.op = "step" /\ last.from = ASK_BANKPATH /\ last.run.failed
    /\ last.input = <<"no">> /\ ~SaysYes(Strip(last.input)) /\ ~out.raised
    /\ out.calls # <<>> /\ out.calls[1].op = "answer_query"
    /\ out.calls[1].require_keywords = PLAN_KEYS \o FIN_DOC_KEYS
    /\ state.flow_state = DONE

\* a retry from show_options that returned: the flow is in offer_budget
C36_WitnessRetry ==
    /\ last.op = "step" /\ last.from = SHOW_OPTIONS /\ last.run.failed /\ ~out.raised
    /\ state.flow_state = OFFER_BUDGET /\ Truthy(state.country)

\* ---------------------------------------------------------------- C37
\* C37: the Clear button empties the conversation history and changes nothing
\* else: the flow marker, flow_state and every slot are what they were.  With
\* a flow active, the text submitted next is routed to that flow as a step,
\* and the runner hands it to the flow function from the flow_state the
\* session was in before Clear.
C37_ClearKeepsTheFlow ==
    /\ [][last'.op = "clear"
            => /\ app.messages # <<>>
               /\ app' = [app EXCEPT !.messages = <<>>]
               /\ state' = state]_vars
    /\ [][(last.op = "clear" /\ last.was # NoFlow /\ last'.op = "submit")
            => /\ last'.routed = "step"
               /\ last'.flow = last.was
               /\ last'.from = last.from
               /\ app'.pending_flow = last.was
               /\ state' = state]_vars
    /\ [][(last.op = "submit" /\ last.routed = "step" /\ last'.op = "run")
            => /\ last'.routed = "step"
               /\ last'.flow = last.flow
               /\ last'.from = last.from
               /\ last'.input = last.input]_vars

\* Clear pressed in the middle of a remittance flow
C37_Witness ==
    /\ last.op = "clear" /\ app.messages = <<>>
    /\ state.flow = "remittance" /\ state.flow_state = ASK_METHOD /\ Truthy(state.country)

\* the step after a Clear: the history holds the new turn only, and the flow
\* took the text as its method
C37_WitnessNextTurn ==
    /\ last.op = "run" /\ last.routed = "step" /\ ~out.raised
    /\ last.flow = "remittance" /\ last.from = ASK_METHOD
    /\ Len(app.messages) = 2
    /\ state.flow_state = ASK_AMOUNT /\ Truthy(state.method)

====
